---- MODULE Spec2Model ----
(***************************************************************************)
(* A model of cmon, a read-only monitoring front-end for a Slurm cluster.  *)
(*                                                                         *)
(* Python strings are modelled as sequences of one-character strings, so   *)
(* that substring tests, prefix tests and splits are computed the way the  *)
(* code computes them.  None is the distinguished value None below.        *)
(***************************************************************************)
EXTENDS Integers, Sequences, FiniteSets, TLC

(***************************************************************************)
(* Bounds of the model                                                     *)
(***************************************************************************)
MaxNodes == 3        \* records in a node collection (merge / rollup runs)
MaxTags == 3         \* state tags carried by one node (state runs)
MaxRender == 2       \* how often one ClusterStatus is rendered
MaxBatch == 3        \* raw records in one scheduler response
MaxFetch == 2        \* fetches of one watch-mode run

(***************************************************************************)
(* String helpers (Python str operations)                                  *)
(***************************************************************************)
None == <<"<None>">>

\* truthiness of an Optional[str]: None and "" are falsy
Truthy(s) == s # None /\ s # <<>>

\* str.find, 1-based; 0 when sub does not occur
Find(s, sub) ==
    LET hits == {i \in 1..(Len(s) - Len(sub) + 1) : SubSeq(s, i, i + Len(sub) - 1) = sub}
    IN  IF hits = {} THEN 0 ELSE CHOOSE i \in hits : \A j \in hits : i <= j

\* the Python operator  sub in s  on strings
Contains(sub, s) == Find(s, sub) # 0

\* str.startswith
StartsWith(s, prefix) ==
    Len(s) >= Len(prefix) /\ SubSeq(s, 1, Len(prefix)) = prefix

\* str.split(sep) for a non-empty separator
RECURSIVE SplitOn(_, _)
SplitOn(s, sep) ==
    LET i == Find(s, sep)
    IN  IF i = 0 THEN <<s>>
        ELSE <<SubSeq(s, 1, i - 1)>> \o SplitOn(SubSeq(s, i + Len(sep), Len(s)), sep)

\* str.split(sep, 1)
SplitOnce(s, sep) ==
    LET i == Find(s, sep)
    IN  IF i = 0 THEN <<s>>
        ELSE <<SubSeq(s, 1, i - 1), SubSeq(s, i + Len(sep), Len(s))>>

\* str.strip() (blanks only)
RECURSIVE Strip(_)
Strip(s) ==
    IF s = <<>> THEN s
    ELSE IF Head(s) = " " THEN Strip(Tail(s))
    ELSE IF s[Len(s)] = " " THEN Strip(SubSeq(s, 1, Len(s) - 1))
    ELSE s

Digits == {"0", "1", "2", "3", "4", "5", "6", "7", "8", "9"}

DigitVal(c) ==
    CASE c = "0" -> 0 [] c = "1" -> 1 [] c = "2" -> 2 [] c = "3" -> 3
      [] c = "4" -> 4 [] c = "5" -> 5 [] c = "6" -> 6 [] c = "7" -> 7
      [] c = "8" -> 8 [] c = "9" -> 9

RECURSIVE DecVal(_)
DecVal(s) == IF s = <<>> THEN 0 ELSE 10 * DecVal(SubSeq(s, 1, Len(s) - 1)) + DigitVal(s[Len(s)])

\* int(s): surrounding blanks and one sign are accepted, then digits only;
\* ok = FALSE stands for ValueError
ParseInt(s) ==
    LET t == Strip(s)
        signed == t # <<>> /\ Head(t) \in {"+", "-"}
        d == IF signed THEN Tail(t) ELSE t
    IN  IF d # <<>> /\ \A i \in 1..Len(d) : d[i] \in Digits
        THEN [ok |-> TRUE,
              val |-> IF signed /\ Head(t) = "-" THEN 0 - DecVal(d) ELSE DecVal(d)]
        ELSE [ok |-> FALSE, val |-> 0]

\* all sequences over S of length 0..n
SeqsUpTo(S, n) == UNION {[1..k -> S] : k \in 0..n}

\* sum of f[i] over a sequence of integers
RECURSIVE SumSeq(_)
SumSeq(s) == IF s = <<>> THEN 0 ELSE Head(s) + SumSeq(Tail(s))

\* the elements of a sequence at the indices idx (a sequence of indices)
Pick(s, idx) == [k \in 1..Len(idx) |-> s[idx[k]]]

(***************************************************************************)
(* Concrete strings used as inputs                                         *)
(***************************************************************************)
PFX == <<"d", "e", "m", "u", "4", "x">>
CPU01 == PFX \o <<"c", "p", "u", "0", "1">>
CPU02 == PFX \o <<"c", "p", "u", "0", "2">>
FAT01 == PFX \o <<"f", "a", "t", "0", "1">>
GPU01 == PFX \o <<"g", "p", "u", "0", "1">>
VDI01 == PFX \o <<"v", "d", "i", "0", "1">>
LOGIN1 == <<"l", "o", "g", "i", "n", "1">>
BAREPFX == PFX \o <<"c", "p">>

GRES_NONE == <<>>
GRES_L40S_4 == <<"g", "p", "u", ":", "l", "4", "0", "s", ":", "4", "(", "S", ":", "0", ")">>
GRES_L40S_2 == <<"g", "p", "u", ":", "l", "4", "0", "s", ":", "2", "(", "I", "D", "X", ":", "0", "-", "1", ")">>
GRES_A_1 == <<"g", "p", "u", ":", "a", ":", "1">>
GRES_BAD == <<"g", "p", "u", ":", "a", ":", "x">>
GRES_UNTYPED == <<"g", "p", "u", ":", "2">>

(***************************************************************************)
(* NodeInfo (models.py)                                                    *)
(***************************************************************************)
\* cpu_load100 is cpu_load in hundredths (the raw integer sinfo reports)
DefaultNode ==
    [name |-> CPU01, state |-> <<"IDLE">>, partition_name |-> None,
     cpus_allocated |-> 0, cpus_total |-> 4, cpu_load100 |-> 0,
     memory_total |-> 8, memory_free |-> 8, memory_allocated |-> 0,
     gres_total |-> GRES_NONE, gres_used |-> GRES_NONE]

\* the Python operator  tag in node.state  on a list
InList(x, l) == \E i \in 1..Len(l) : l[i] = x

is_idle(n) == InList("IDLE", n.state)

\* a draining node counted as down even while it is idle
is_down_ignoring_idle(n) ==
    InList("DOWN", n.state) \/ \E i \in 1..Len(n.state) : n.state[i] \in {"DRAIN", "DRNG"}

is_down(n) ==
    IF InList("DOWN", n.state) THEN TRUE
    ELSE IF \E i \in 1..Len(n.state) : n.state[i] \in {"DRAIN", "DRNG"}
         THEN ~InList("IDLE", n.state)
    ELSE FALSE

is_mixed(n) == InList("MIXED", n.state)

\* a percentage kept as an exact fraction num/den; Zero is the literal 0.0
Ratio(num, den) == [num |-> num, den |-> den]
Zero == Ratio(0, 1)

\* what stands for the ZeroDivisionError a division by 0 raises
ZeroDivisionError == Ratio(0, 0)

\* (a / b) * 100
Percent(a, b) == IF b = 0 THEN ZeroDivisionError ELSE Ratio(a * 100, b)

\* the quotient taken without looking at the total first
cpu_utilization_unguarded(n) == Percent(n.cpus_allocated, n.cpus_total)

cpu_utilization(n) ==
    IF n.cpus_total = 0 THEN Zero ELSE Percent(n.cpus_allocated, n.cpus_total)

\* the quotient of the allocated memory, the convention of the group rollup
memory_utilization_by_allocated(n) ==
    IF n.memory_total = 0 THEN Zero ELSE Percent(n.memory_allocated, n.memory_total)

memory_utilization(n) ==
    IF n.memory_total = 0 THEN Zero
    ELSE Percent(n.memory_total - n.memory_free, n.memory_total)

\* memory_utilization > pct, on exact rationals (0.0 when memory_total = 0)
memory_utilization_gt(n, pct) ==
    IF n.memory_total = 0 THEN 0 > pct
    ELSE (n.memory_total - n.memory_free) * 100 > pct * n.memory_total

\* count_info.split("(")[0].split(",")[0]
CountStr(count_info) == SplitOn(SplitOn(count_info, <<"(">>)[1], <<",">>)[1]

GPUMARK == <<"g", "p", "u", ":">>

\* a count that is no integer puts the total back to 0
RECURSIVE GpuTotalLoopResetting(_, _, _)
GpuTotalLoopResetting(parts, i, acc) ==
    IF i > Len(parts) THEN acc
    ELSE LET part == parts[i] IN
         IF Contains(<<":">>, part)
         THEN LET sp == SplitOnce(part, <<":">>)
                  r == ParseInt(CountStr(sp[2]))
              IN  GpuTotalLoopResetting(parts, i + 1,
                      [type |-> sp[1], total |-> IF r.ok THEN r.val ELSE 0])
         ELSE GpuTotalLoopResetting(parts, i + 1, acc)

\* the loop over parts[1:] of gres_total: later parts overwrite earlier ones
RECURSIVE GpuTotalLoop(_, _, _)
GpuTotalLoop(parts, i, acc) ==
    IF i > Len(parts) THEN acc
    ELSE LET part == parts[i] IN
         IF Contains(<<":">>, part)
         THEN LET sp == SplitOnce(part, <<":">>)
                  r == ParseInt(CountStr(sp[2]))
              IN  GpuTotalLoop(parts, i + 1,
                      [type |-> sp[1], total |-> IF r.ok THEN r.val ELSE acc.total])
         ELSE GpuTotalLoop(parts, i + 1, acc)

\* the loop over parts[1:] of gres_used
RECURSIVE GpuUsedLoop(_, _, _)
GpuUsedLoop(parts, i, used) ==
    IF i > Len(parts) THEN used
    ELSE LET part == parts[i] IN
         IF Contains(<<":">>, part)
         THEN LET subparts == SplitOn(part, <<":">>)
                  r == ParseInt(CountStr(subparts[2]))
              IN  GpuUsedLoop(parts, i + 1, IF r.ok THEN r.val ELSE used)
         ELSE GpuUsedLoop(parts, i + 1, used)

gpu_info(n) ==
    LET t == IF Contains(GPUMARK, n.gres_total)
             THEN GpuTotalLoop(SplitOn(n.gres_total, GPUMARK), 2, [type |-> <<>>, total |-> 0])
             ELSE [type |-> <<>>, total |-> 0]
        u == IF Contains(GPUMARK, n.gres_used)
             THEN GpuUsedLoop(SplitOn(n.gres_used, GPUMARK), 2, 0)
             ELSE 0
    IN  [total |-> t.total, used |-> u, type |-> t.type]

(***************************************************************************)
(* ClusterStatus (models.py)                                               *)
(***************************************************************************)

total_nodes(ns) == Len(ns)
idle_nodes(ns) == Cardinality({i \in 1..Len(ns) : is_idle(ns[i])})
\* every node carrying DOWN, DRAIN or DRNG counted, idle or not
down_nodes_with_draining(ns) ==
    Cardinality({i \in 1..Len(ns) :
        \E k \in 1..Len(ns[i].state) : ns[i].state[k] \in {"DOWN", "DRAIN", "DRNG"}})
down_nodes(ns) == Cardinality({i \in 1..Len(ns) : is_down(ns[i])})
total_cpus(ns) == SumSeq([i \in 1..Len(ns) |-> ns[i].cpus_total])
allocated_cpus(ns) == SumSeq([i \in 1..Len(ns) |-> ns[i].cpus_allocated])

\* ClusterStatus.cpu_utilization
cluster_cpu_utilization(ns) ==
    IF total_cpus(ns) = 0 THEN Zero ELSE Percent(allocated_cpus(ns), total_cpus(ns))

PartitionGroups ==
    << [name |-> "CPU Nodes", prefix |-> PFX \o <<"c", "p", "u">>],
       [name |-> "Fat Nodes", prefix |-> PFX \o <<"f", "a", "t">>],
       [name |-> "GPU Nodes", prefix |-> PFX \o <<"g", "p", "u">>],
       [name |-> "VDI Nodes", prefix |-> PFX \o <<"v", "d", "i">>] >>

\* the inner for/break: the first group whose prefix the name starts with, 0 if none
GroupOf(n) ==
    LET hits == {g \in 1..Len(PartitionGroups) : StartsWith(n.name, PartitionGroups[g].prefix)}
    IN  IF hits = {} THEN 0 ELSE CHOOSE g \in hits : \A h \in hits : g <= h

\* every record appended, whether or not its name is already in the group
GroupAppendsAlways(ns, members, g, i) == TRUE

\* whether the node at index i is appended to its group's list
GroupAppends(ns, members, g, i) ==
    ~\E k \in 1..Len(members[g]) : ns[members[g][k]].name = ns[i].name

\* the grouping loop: members[g] is the list of indices of ns appended to group g
RECURSIVE GroupLoop(_, _, _)
GroupLoop(ns, i, members) ==
    IF i > Len(ns) THEN members
    ELSE LET g == GroupOf(ns[i]) IN
         IF g # 0 /\ GroupAppends(ns, members, g, i)
         THEN GroupLoop(ns, i + 1, [members EXCEPT ![g] = Append(@, i)])
         ELSE GroupLoop(ns, i + 1, members)

GroupStats(nodes) ==
    LET tc == total_cpus(nodes)
        ac == allocated_cpus(nodes)
        tm == SumSeq([i \in 1..Len(nodes) |-> nodes[i].memory_total])
        am == SumSeq([i \in 1..Len(nodes) |-> nodes[i].memory_allocated])
        tg == SumSeq([i \in 1..Len(nodes) |-> gpu_info(nodes[i]).total])
        ug == SumSeq([i \in 1..Len(nodes) |-> gpu_info(nodes[i]).used])
    IN  [node_count |-> Len(nodes),
         cpu_total |-> tc, cpu_allocated |-> ac,
         cpu_utilization |-> IF tc > 0 THEN Percent(ac, tc) ELSE Zero,
         memory_total |-> tm, memory_used |-> am,
         memory_utilization |-> IF tm > 0 THEN Percent(am, tm) ELSE Zero,
         gpu_total |-> tg, gpu_used |-> ug,
         gpu_utilization |-> IF tg > 0 THEN Percent(ug, tg) ELSE Zero,
         gpu_types |-> {gpu_info(nodes[i]).type : i \in 1..Len(nodes)} \ {<<>>}]

\* groups without nodes get no entry
partition_stats(ns) ==
    LET members == GroupLoop(ns, 1, [g \in 1..Len(PartitionGroups) |-> <<>>])
        present == {g \in 1..Len(PartitionGroups) : members[g] # <<>>}
    IN  [nm \in {PartitionGroups[g].name : g \in present} |->
            LET g == CHOOSE h \in present : PartitionGroups[h].name = nm
            IN  GroupStats(Pick(ns, members[g]))]

(***************************************************************************)
(* JobInfo (models.py)                                                     *)
(***************************************************************************)
DigitChar(d) ==
    CASE d = 0 -> "0" [] d = 1 -> "1" [] d = 2 -> "2" [] d = 3 -> "3" [] d = 4 -> "4"
      [] d = 5 -> "5" [] d = 6 -> "6" [] d = 7 -> "7" [] d = 8 -> "8" [] d = 9 -> "9"

\* str(n) of an integer, as in an f-string
RECURSIVE Str(_)
Str(n) ==
    IF n < 0 THEN <<"-">> \o Str(0 - n)
    ELSE IF n < 10 THEN <<DigitChar(n)>>
    ELSE Str(n \div 10) \o <<DigitChar(n % 10)>>

\* int(seconds / 60): int() cuts the fraction off, towards zero
IntMinutes(seconds) ==
    IF seconds >= 0 THEN seconds \div 60 ELSE 0 - ((0 - seconds) \div 60)

\* an Optional value is <<>> for None and <<v>> for v; times are whole
\* seconds; now is what datetime.now() gives
DefaultJob ==
    [time_limit |-> <<>>, start_time |-> <<>>, tres_alloc_str |-> <<>>]

remaining_time_minutes(job, now) ==
    IF job.time_limit = <<>> \/ job.time_limit[1] = 0 \/ job.start_time = <<>>
    THEN <<>>
    ELSE LET elapsed_minutes == IntMinutes(now - job.start_time[1])
             remaining == job.time_limit[1] - elapsed_minutes
         IN  <<IF remaining > 0 THEN remaining ELSE 0>>

\* the hours taken from the whole span instead of the rest after full days
DaysDisplayTotalHours(remaining) ==
    LET days == remaining \div 1440
        hours == remaining \div 60
    IN  IF hours = 0 THEN Str(days) \o <<"d">>
        ELSE Str(days) \o <<"d", " ">> \o Str(hours) \o <<"h">>

\* the branch of remaining_time_display for 24 hours or more
DaysDisplay(remaining) ==
    LET days == remaining \div 1440
        hours == (remaining % 1440) \div 60
    IN  IF hours = 0 THEN Str(days) \o <<"d">>
        ELSE Str(days) \o <<"d", " ">> \o Str(hours) \o <<"h">>

remaining_time_display(job, now) ==
    LET r == remaining_time_minutes(job, now) IN
    IF r = <<>> THEN <<"-">>
    ELSE LET remaining == r[1] IN
         IF remaining = 0 THEN <<"0", "m">>
         ELSE IF remaining < 60 THEN Str(remaining) \o <<"m">>
         ELSE IF remaining < 1440
         THEN LET hours == remaining \div 60
                  minutes == remaining % 60
              IN  IF minutes = 0 THEN Str(hours) \o <<"h">>
                  ELSE Str(hours) \o <<"h", " ">> \o Str(minutes) \o <<"m">>
         ELSE DaysDisplay(remaining)

Lowers == <<"a", "b", "c", "d", "e", "f", "g", "h", "i", "j", "k", "l", "m",
            "n", "o", "p", "q", "r", "s", "t", "u", "v", "w", "x", "y", "z">>
Uppers == <<"A", "B", "C", "D", "E", "F", "G", "H", "I", "J", "K", "L", "M",
            "N", "O", "P", "Q", "R", "S", "T", "U", "V", "W", "X", "Y", "Z">>

\* str.upper()
Upper(s) ==
    [k \in 1..Len(s) |->
        IF \E i \in 1..Len(Lowers) : Lowers[i] = s[k]
        THEN Uppers[CHOOSE i \in 1..Len(Lowers) : Lowers[i] = s[k]]
        ELSE s[k]]

\* the loop of allocated_resources: resources is the dict, kept as the list
\* of its items in insertion order; assigning to a key it holds replaces the
\* value in place
RECURSIVE ResourcesLoop(_, _, _)
ResourcesLoop(items, i, resources) ==
    IF i > Len(items) THEN resources
    ELSE IF Contains(<<"=">>, items[i])
    THEN LET kv == SplitOnce(items[i], <<"=">>)
             entry == [key |-> Strip(kv[1]), value |-> Strip(kv[2])]
             at == {k \in 1..Len(resources) : resources[k].key = entry.key}
         IN  ResourcesLoop(items, i + 1,
                 IF at = {} THEN Append(resources, entry)
                 ELSE [k \in 1..Len(resources) |->
                          IF k \in at THEN entry ELSE resources[k]])
    ELSE ResourcesLoop(items, i + 1, resources)

allocated_resources(job) ==
    IF job.tres_alloc_str = <<>> THEN <<>>
    ELSE ResourcesLoop(SplitOn(job.tres_alloc_str, <<",">>), 1, <<>>)

GRES_GPU == <<"g", "r", "e", "s", "/", "g", "p", "u">>
GRES_GPU_TYPED == GRES_GPU \o <<":">>

\* the scan given up at the first key containing gres/gpu, integer or not
RECURSIVE AllocatedGpusFirstKeyOnly(_, _)
AllocatedGpusFirstKeyOnly(resources, i) ==
    IF i > Len(resources) THEN 0
    ELSE IF Contains(GRES_GPU, resources[i].key)
    THEN ParseInt(resources[i].value).val
    ELSE AllocatedGpusFirstKeyOnly(resources, i + 1)

\* the loop of allocated_gpus: return at the first key containing gres/gpu
\* whose value int() accepts, go on after a ValueError
RECURSIVE AllocatedGpusLoop(_, _)
AllocatedGpusLoop(resources, i) ==
    IF i > Len(resources) THEN 0
    ELSE IF Contains(GRES_GPU, resources[i].key) /\ ParseInt(resources[i].value).ok
    THEN ParseInt(resources[i].value).val
    ELSE AllocatedGpusLoop(resources, i + 1)

allocated_gpus(job) == AllocatedGpusLoop(allocated_resources(job), 1)

\* the loop of gpu_type_info: break at the first key containing gres/gpu:
\* whose value int() accepts
RECURSIVE GpuTypeLoop(_, _)
GpuTypeLoop(resources, i) ==
    IF i > Len(resources) THEN [count |-> 0, type |-> <<>>, display |-> <<"-">>]
    ELSE IF Contains(GRES_GPU_TYPED, resources[i].key) /\ ParseInt(resources[i].value).ok
    THEN LET parts == SplitOn(resources[i].key, GRES_GPU_TYPED)
             gpu_type == parts[Len(parts)]
             count == ParseInt(resources[i].value).val
         IN  [count |-> count, type |-> Upper(gpu_type),
              display |-> Str(count) \o <<"x">> \o Upper(gpu_type)]
    ELSE GpuTypeLoop(resources, i + 1)

gpu_type_info(job) ==
    LET gpu_info0 == GpuTypeLoop(allocated_resources(job), 1)
        gpu_count == allocated_gpus(job)
    IN  IF gpu_info0.count = 0 /\ gpu_count > 0
        THEN [gpu_info0 EXCEPT !.count = gpu_count, !.display = Str(gpu_count)]
        ELSE gpu_info0

(***************************************************************************)
(* DisplayFormatter.create_nodes_table (display.py)                        *)
(***************************************************************************)
\* the host names a job's nodes string is taken to name
JobNodeNames(j) ==
    LET names == IF ~Contains(<<",">>, j.nodes) /\ ~Contains(<<"[">>, j.nodes)
                 THEN <<j.nodes>> ELSE SplitOn(j.nodes, <<",">>)
    IN  [k \in 1..Len(names) |-> Strip(names[k])]

\* len(jobs_by_node.get(name, []))
RECURSIVE NodeJobCount(_, _)
NodeJobCount(js, name) ==
    IF js = <<>> THEN 0
    ELSE LET j == Head(js)
             here == IF j.nodes # <<>>
                     THEN Cardinality({k \in 1..Len(JobNodeNames(j)) : JobNodeNames(j)[k] = name})
                     ELSE 0
         IN  here + NodeJobCount(Tail(js), name)

\* len(get_warning_indicators(node, jobs))
WarningCount(n, njobs) ==
    (IF n.cpu_load100 > 100 * (n.cpus_allocated + 4) THEN 1 ELSE 0)
    + (IF memory_utilization_gt(n, 90) THEN 1 ELSE 0)
    + (IF njobs > n.cpus_allocated THEN 1 ELSE 0)

get_state_style(n) ==
    IF is_down(n) THEN <<"red", "hollow">>
    ELSE IF is_idle(n)
         THEN (IF \E i \in 1..Len(n.state) : n.state[i] \in {"DRAIN", "DRNG"}
               THEN <<"yellow", "hollow">> ELSE <<"green", "full">>)
    ELSE IF is_mixed(n) THEN <<"yellow", "full">>
    ELSE <<"blue", "full">>

state_priority == <<"DOWN", "DRAIN", "DRNG", "MIXED", "ALLOCATED", "IDLE">>

\* the first raw tag shown whenever the list is not empty
DisplayStateFirstTag(st) == IF st = <<>> THEN "unknown" ELSE st[1]

DisplayState(st) ==
    IF st = <<>> THEN "unknown"
    ELSE LET hits == {k \in 1..Len(state_priority) : InList(state_priority[k], st)}
             found == IF hits = {} THEN "unknown"
                      ELSE state_priority[CHOOSE k \in hits : \A h \in hits : k <= h]
         IN  IF found = "unknown" THEN st[1] ELSE found

\* the later record's partition appended without looking whether it is there
MergePartitionAppending(existing, new) ==
    IF Truthy(existing) /\ Truthy(new) THEN existing \o <<"+">> \o new ELSE existing

\* the merge of a later record's partition into the first record of its name
MergePartition(existing, new) ==
    IF Truthy(existing) /\ Truthy(new)
    THEN (IF ~Contains(new, existing) THEN existing \o <<"+">> \o new ELSE existing)
    ELSE existing

\* the deduplication loop; uniq lists the indices of the first record of each
\* name in insertion order, and ns is the collection itself, whose first
\* records the loop updates in place
RECURSIVE DedupLoop(_, _, _)
DedupLoop(ns, i, uniq) ==
    IF i > Len(ns) THEN [nodes |-> ns, uniq |-> uniq]
    ELSE LET seen == {k \in 1..Len(uniq) : ns[uniq[k]].name = ns[i].name} IN
         IF seen = {} THEN DedupLoop(ns, i + 1, Append(uniq, i))
         ELSE LET e == uniq[CHOOSE k \in seen : TRUE]
              IN  DedupLoop([ns EXCEPT ![e].partition_name =
                                 MergePartition(@, ns[i].partition_name)],
                            i + 1, uniq)

TableRow(n, js) ==
    [name |-> n.name, partition_name |-> n.partition_name,
     display_state |-> DisplayState(n.state), style |-> get_state_style(n),
     cpu_utilization |-> cpu_utilization(n),
     memory_utilization |-> memory_utilization(n),
     jobs |-> NodeJobCount(js, n.name)]

RowShown(n, js, issues_only) ==
    ~(issues_only /\ WarningCount(n, NodeJobCount(js, n.name)) = 0 /\ ~is_down(n))

RECURSIVE RowsLoop(_, _, _)
RowsLoop(entries, js, issues_only) ==
    IF entries = <<>> THEN <<>>
    ELSE (IF RowShown(Head(entries), js, issues_only)
          THEN <<TableRow(Head(entries), js)>> ELSE <<>>)
         \o RowsLoop(Tail(entries), js, issues_only)

\* the deduplicated list put in the place of the cluster's node collection
create_nodes_table_replacing(ns, js, issues_only) ==
    LET d == DedupLoop(ns, 1, <<>>)
        entries == Pick(d.nodes, d.uniq)
    IN  [nodes |-> entries, entries |-> entries,
         rows |-> RowsLoop(entries, js, issues_only)]

\* nodes: the collection after the call; entries: unique_nodes.values();
\* rows: the rows added to the table
create_nodes_table(ns, js, issues_only) ==
    LET d == DedupLoop(ns, 1, <<>>)
        entries == Pick(d.nodes, d.uniq)
    IN  [nodes |-> d.nodes, entries |-> entries,
         rows |-> RowsLoop(entries, js, issues_only)]

(***************************************************************************)
(* Exceptions                                                              *)
(***************************************************************************)
\* "None" stands for normal completion.  Exit0 and Exit1 are typer.Exit(0) and
\* typer.Exit(1); KeyboardInterrupt is the only BaseException that is not an
\* Exception.
NoExc == "None"

IsException(e) == e \notin {NoExc, "KeyboardInterrupt"}

(***************************************************************************)
(* JobInfo / NodeInfo construction from raw records (models.py)            *)
(***************************************************************************)
\* A raw sinfo record: kind is the JSON type of the record; has_nodes says
\* whether nodes.nodes is present and names is that list; typed says whether
\* the remaining fields have the types NodeInfo declares.
RawNode(kind, has_nodes, names, typed, part) ==
    [kind |-> kind, has_nodes |-> has_nodes, names |-> names, typed |-> typed,
     partition |-> part]

from_sinfo_json(raw) ==
    IF raw.kind # "dict" THEN [exc |-> "AttributeError", node |-> DefaultNode]
    ELSE IF raw.has_nodes /\ raw.names = <<>> THEN [exc |-> "IndexError", node |-> DefaultNode]
    ELSE IF ~raw.typed THEN [exc |-> "ValidationError", node |-> DefaultNode]
    ELSE [exc |-> NoExc,
          node |-> [DefaultNode EXCEPT
                      !.name = IF raw.has_nodes THEN raw.names[1] ELSE <<>>,
                      !.partition_name = raw.partition]]

\* A raw squeue record: job_id is 0 when the key is absent; envelopes says
\* whether start_time, end_time and time_limit are set/number objects.
RawJob(kind, job_id, envelopes, typed, hosts) ==
    [kind |-> kind, job_id |-> job_id, envelopes |-> envelopes, typed |-> typed,
     nodes |-> hosts]

from_squeue_json(raw) ==
    IF raw.kind # "dict" THEN [exc |-> "AttributeError", job |-> [job_id |-> 0, nodes |-> <<>>]]
    ELSE IF ~raw.envelopes THEN [exc |-> "AttributeError", job |-> [job_id |-> 0, nodes |-> <<>>]]
    ELSE IF ~raw.typed THEN [exc |-> "ValidationError", job |-> [job_id |-> 0, nodes |-> <<>>]]
    ELSE [exc |-> NoExc, job |-> [job_id |-> raw.job_id, nodes |-> raw.nodes]]

(***************************************************************************)
(* SlurmInterface (slurm.py)                                               *)
(***************************************************************************)
\* What one run of a scheduler command can do:
\*   ok        exit 0, a JSON object without errors
\*   errors    exit 0, a JSON object with a non-empty errors list
\*   notdict   exit 0, valid JSON that is not an object
\*   empty     exit 0, blank output
\*   badjson   exit 0, output that is not JSON
\*   nonzero   non-zero exit status
\*   timeout   no exit within the timeout
\*   notfound  the binary does not exist
\*   oserror   the binary cannot be executed
\*   interrupt the user interrupt arrives while the command runs
Outcomes == {"ok", "errors", "notdict", "empty", "badjson", "nonzero", "timeout",
             "notfound", "oserror", "interrupt"}

\* the exception leaving _run_command
run_command(outcome) ==
    CASE outcome \in {"ok", "errors", "notdict"} -> NoExc
      [] outcome \in {"empty", "badjson", "nonzero", "timeout"} -> "SlurmError"
      [] outcome = "notfound" -> "FileNotFoundError"
      [] outcome = "oserror" -> "PermissionError"
      [] outcome = "interrupt" -> "KeyboardInterrupt"

\* subprocess.run calls made by one _run_command
\* (variant: a second run after a timeout)
command_starts_retrying(outcome) == IF outcome = "timeout" THEN 2 ELSE 1

command_starts(outcome) == 1

\* only SlurmError handled: anything else leaves the call as it is
query_handler_slurm_only(e) == e

\* the except clauses that close get_nodes and get_jobs
query_handler(e) ==
    IF e = "SlurmError" THEN "SlurmError"
    ELSE IF IsException(e) THEN "SlurmError"
    ELSE e

\* the body of the try block after _run_command returned
response_check(outcome) ==
    CASE outcome = "errors" -> "SlurmError"
      [] outcome = "notdict" -> "AttributeError"
      [] OTHER -> NoExc

\* the loop without its inner try/except: the first record that fails to
\* parse ends the call
RECURSIVE NodesLoopAbort(_, _)
NodesLoopAbort(batch, acc) ==
    IF batch = <<>> THEN acc
    ELSE LET r == from_sinfo_json(Head(batch)) IN
         IF IsException(r.exc)
         THEN [exc |-> "SlurmError", value |-> <<>>, warnings |-> 0]
         ELSE IF r.node.name # <<>>
         THEN NodesLoopAbort(Tail(batch), [acc EXCEPT !.value = Append(@, r.node)])
         ELSE NodesLoopAbort(Tail(batch), acc)

\* the loop over data["sinfo"]
RECURSIVE NodesLoop(_, _)
NodesLoop(batch, acc) ==
    IF batch = <<>> THEN acc
    ELSE LET r == from_sinfo_json(Head(batch)) IN
         IF IsException(r.exc)
         THEN NodesLoop(Tail(batch), [acc EXCEPT !.warnings = @ + 1])
         ELSE IF r.node.name # <<>>
         THEN NodesLoop(Tail(batch), [acc EXCEPT !.value = Append(@, r.node)])
         ELSE NodesLoop(Tail(batch), acc)

\* the loop over data["jobs"]
RECURSIVE JobsLoop(_, _)
JobsLoop(batch, acc) ==
    IF batch = <<>> THEN acc
    ELSE LET r == from_squeue_json(Head(batch)) IN
         IF IsException(r.exc)
         THEN JobsLoop(Tail(batch), [acc EXCEPT !.warnings = @ + 1])
         ELSE IF r.job.job_id # 0
         THEN JobsLoop(Tail(batch), [acc EXCEPT !.value = Append(@, r.job)])
         ELSE JobsLoop(Tail(batch), acc)

\* exc: the exception leaving the call; value: the list returned;
\* warnings: the warnings printed
get_nodes(outcome, batch) ==
    LET e1 == run_command(outcome)
        e2 == IF e1 = NoExc THEN response_check(outcome) ELSE e1
    IN  IF e2 # NoExc THEN [exc |-> query_handler(e2), value |-> <<>>, warnings |-> 0]
        ELSE NodesLoop(batch, [exc |-> NoExc, value |-> <<>>, warnings |-> 0])

get_jobs(outcome, batch) ==
    LET e1 == run_command(outcome)
        e2 == IF e1 = NoExc THEN response_check(outcome) ELSE e1
    IN  IF e2 # NoExc THEN [exc |-> query_handler(e2), value |-> <<>>, warnings |-> 0]
        ELSE JobsLoop(batch, [exc |-> NoExc, value |-> <<>>, warnings |-> 0])

\* the except clause that closes get_cluster_status
cluster_status_handler(e) == IF IsException(e) THEN "SlurmError" ELSE e

\* test_connection: TRUE, FALSE, or the exception that leaves it
test_connection(outcome) ==
    CASE outcome = "ok" -> [exc |-> NoExc, value |-> TRUE]
      [] outcome \in {"nonzero", "timeout", "notfound"} -> [exc |-> NoExc, value |-> FALSE]
      [] outcome = "oserror" -> [exc |-> "PermissionError", value |-> FALSE]
      [] outcome = "interrupt" -> [exc |-> "KeyboardInterrupt", value |-> FALSE]

ProbeOutcomes == {"ok", "nonzero", "timeout", "notfound", "oserror", "interrupt"}

\* what subprocess.run raises for each way the command can end
run_raises(outcome) ==
    CASE outcome = "ok" -> NoExc
      [] outcome = "nonzero" -> "CalledProcessError"
      [] outcome = "timeout" -> "TimeoutExpired"
      [] outcome = "notfound" -> "FileNotFoundError"
      [] outcome = "oserror" -> "PermissionError"
      [] outcome = "interrupt" -> "KeyboardInterrupt"

\* [line.strip() for line in result.stdout.splitlines() if line.strip()]
RECURSIVE StrippedLines(_)
StrippedLines(lines) ==
    IF lines = <<>> THEN <<>>
    ELSE (IF Strip(Head(lines)) # <<>> THEN <<Strip(Head(lines))>> ELSE <<>>)
         \o StrippedLines(Tail(lines))

\* expand_hostlist(hostlist): outcome is what scontrol show hostnames does and
\* stdout the lines it prints; ran tells whether the command was started at all
expand_hostlist(hostlist, outcome, stdout) ==
    IF Strip(hostlist) = <<>> THEN [exc |-> NoExc, value |-> <<>>, ran |-> FALSE]
    ELSE IF ~Contains(<<"[">>, hostlist) /\ ~Contains(<<",">>, hostlist)
    THEN [exc |-> NoExc, value |-> <<Strip(hostlist)>>, ran |-> FALSE]
    ELSE LET e == run_raises(outcome) IN
         IF e = NoExc
         THEN [exc |-> NoExc, value |-> StrippedLines(stdout), ran |-> TRUE]
         ELSE IF e \in {"CalledProcessError", "TimeoutExpired"}
         THEN [exc |-> NoExc, value |-> <<hostlist>>, ran |-> TRUE]
         ELSE [exc |-> e, value |-> <<>>, ran |-> TRUE]

(***************************************************************************)
(* Command line (cli.py, cli_common.py)                                    *)
(***************************************************************************)
VIEW_LEVELS == {"compact", "standard", "detailed"}

view_config(view) ==
    CASE view = "compact" -> [show_summary |-> FALSE, show_partitions |-> FALSE]
      [] view = "standard" -> [show_summary |-> TRUE, show_partitions |-> TRUE]
      [] view = "detailed" -> [show_summary |-> TRUE, show_partitions |-> TRUE]

\* console.print(..., file=sys.stderr) followed by raise typer.Exit(1): the
\* keyword is passed on to the console, which either accepts it or raises
stderr_print_then_exit1(file_ok) == IF file_ok THEN "Exit1" ELSE "TypeError"

\* the error is reported and the function returns instead of exiting
fetch_and_display_handler_swallow(e, file_ok) == IF IsException(e) THEN NoExc ELSE e

\* the except clauses that close fetch_and_display
fetch_and_display_handler(e, file_ok) ==
    IF e = "SlurmError" THEN stderr_print_then_exit1(file_ok)
    ELSE IF IsException(e) THEN stderr_print_then_exit1(file_ok)
    ELSE e

\* the except clause that closes the polling loop of handle_watch_mode
watch_handler(e) == IF e = "KeyboardInterrupt" THEN "Exit0" ELSE e

\* the exit status of the process when e leaves the command function
\* (Exit(n) gives n; anything else ends the run with status 1)
ProcessExit(e) ==
    CASE e = NoExc -> 0
      [] e = "Exit0" -> 0
      [] OTHER -> 1

\* the state filter of the nodes command: state is the option's value, None
\* when the option is not given
nodes_state_filter(ns, state) ==
    IF ~Truthy(state) THEN ns
    ELSE LET state_upper == Upper(state)
             HasAllocated(n) == InList("ALLOCATED", n.state)
         IN  IF state_upper = <<"I", "D", "L", "E">> THEN SelectSeq(ns, is_idle)
             ELSE IF state_upper = <<"M", "I", "X", "E", "D">> THEN SelectSeq(ns, is_mixed)
             ELSE IF state_upper = <<"A", "L", "L", "O", "C", "A", "T", "E", "D">>
             THEN SelectSeq(ns, HasAllocated)
             ELSE IF state_upper = <<"D", "O", "W", "N">> THEN SelectSeq(ns, is_down)
             ELSE ns

\* list.sort / sorted: a stable sort, Less(a, b) telling that a's key is
\* smaller than b's; elements with equal keys keep their order
StableSort(s, Less(_, _)) ==
    LET rank(i) == 1 + Cardinality({j \in 1..Len(s) :
                        j # i /\ (Less(s[j], s[i]) \/ (~Less(s[i], s[j]) /\ j < i))})
    IN  [k \in 1..Len(s) |-> s[CHOOSE i \in 1..Len(s) : rank(i) = k]]

\* a < b on str, for strings of lower-case letters
RECURSIVE StrLess(_, _)
StrLess(a, b) ==
    IF b = <<>> THEN FALSE
    ELSE IF a = <<>> THEN TRUE
    ELSE IF a[1] = b[1] THEN StrLess(Tail(a), Tail(b))
    ELSE (CHOOSE i \in 1..Len(Lowers) : Lowers[i] = a[1])
            < (CHOOSE i \in 1..Len(Lowers) : Lowers[i] = b[1])

\* (a.start_time or datetime.min) < (b.start_time or datetime.min)
StartBefore(a, b) ==
    /\ b.start_time # <<>>
    /\ (a.start_time = <<>> \/ a.start_time[1] < b.start_time[1])

\* reverse=True: the larger key first, equal keys still in their order
StartAfter(a, b) == StartBefore(b, a)

\* the sort of show_jobs.fetch_and_display; every value of --sort other than
\* id, user, nodes and gpu sorts by start time
sort_jobs(js, sort) ==
    LET ById(a, b) == a.job_id < b.job_id
        ByUser(a, b) == StrLess(a.user_name, b.user_name)
        ByNodes(a, b) == Len(SplitOn(a.nodes, <<",">>)) < Len(SplitOn(b.nodes, <<",">>))
        ByGpuReverse(a, b) == allocated_gpus(a) > allocated_gpus(b)
    IN  CASE sort = "id" -> StableSort(js, ById)
          [] sort = "user" -> StableSort(js, ByUser)
          [] sort = "nodes" -> StableSort(js, ByNodes)
          [] sort = "gpu" -> StableSort(js, ByGpuReverse)
          [] OTHER -> StableSort(js, StartAfter)

\* s[:n]
SliceTo(s, n) ==
    IF n >= 0 THEN SubSeq(s, 1, IF n < Len(s) THEN n ELSE Len(s))
    ELSE SubSeq(s, 1, IF Len(s) + n > 0 THEN Len(s) + n ELSE 0)

\* the jobs create_jobs_table (display.py) makes rows of, in row order; limit
\* is <<>> for None
create_jobs_table(js, limit) ==
    LET sorted_jobs == StableSort(js, StartAfter)
    IN  IF limit # <<>> /\ limit[1] # 0 THEN SliceTo(sorted_jobs, limit[1]) ELSE sorted_jobs

\* print_jobs (display.py): no table for an empty list
print_jobs(js, limit) == IF js = <<>> THEN <<>> ELSE create_jobs_table(js, limit)

\* [j for j in filtered_cluster.jobs if node.name in j.nodes], as indices
CsvNodeJobs(js, name) == {k \in 1..Len(js) : Contains(name, js[k].nodes)}

\* the data rows of the CSV export of the status command; state holds the
\* tags that are joined with "|"
CsvRows(ns, js) ==
    [i \in 1..Len(ns) |->
        [Node |-> ns[i].name,
         State |-> ns[i].state,
         CPUs_Allocated |-> ns[i].cpus_allocated,
         CPUs_Total |-> ns[i].cpus_total,
         Memory_Used_MB |-> ns[i].memory_total - ns[i].memory_free,
         Memory_Total_MB |-> ns[i].memory_total,
         GPU_Used |-> gpu_info(ns[i]).used,
         GPU_Total |-> gpu_info(ns[i]).total,
         Jobs |-> Cardinality(CsvNodeJobs(js, ns[i].name))]]

(***************************************************************************)
(* State                                                                   *)
(***************************************************************************)
VARIABLES
    fetched,    \* the node records as get_nodes returned them
    nodes,      \* ClusterStatus.nodes (the records are shared with the table)
    jobs,       \* ClusterStatus.jobs
    table,      \* result of the last create_nodes_table: entries and rows
    rendered,   \* number of create_nodes_table calls on this ClusterStatus
    stats,      \* result of the last partition_stats
    summary,    \* counts of the last create_summary_panel
    done,       \* which of the three have been evaluated
    args,       \* the command line: cmd, view, watch, issues
    env,        \* the surroundings: what sinfo and squeue hold, and whether
                \* the console accepts the file keyword
    pc,         \* position of the command function
    loopOn,     \* inside the polling loop of handle_watch_mode
    exitCode,   \* exit status of the process, -1 while it runs
    leaving,    \* the exception that left the command function
    fetches,    \* calls of fetch_function in this run
    probes,     \* sinfo --version runs
    queries,    \* sinfo --json and squeue --json runs in this run
    started,    \* runs of each query command in the current fetch
    ran,        \* what each query command did in the current fetch
    left,       \* how get_nodes, get_jobs, get_cluster_status ended in the current fetch
    warned,     \* warnings printed by get_nodes / get_jobs in the current fetch
    interrupted,\* a user interrupt was delivered inside the polling loop
    connected,  \* what test_connection returned: "untested", "yes", "no"
    raised,     \* the exception raised inside the try block of fetch_and_display
    csv,        \* the rows written by the CSV export of the last fetch
    subject,    \* the object, or the call, a property or method is evaluated on
    result      \* the last evaluation: which property or method, and what it gave

clusterVars == <<fetched, nodes, jobs, table, rendered, stats, summary, done>>
cliVars == <<args, env, pc, loopOn, exitCode, leaving, fetches, probes, queries,
             started, ran, left, warned, interrupted, connected, raised>>
evalVars == <<csv, subject, result>>
vars == <<clusterVars, cliVars, evalVars>>

NoSummary == [total |-> 0, idle |-> 0, down |-> 0, mixed |-> 0, allocated |-> 0,
              total_cpus |-> 0, allocated_cpus |-> 0, cpu_utilization |-> Zero]
NoTable == [entries |-> <<>>, rows |-> <<>>, issues_only |-> FALSE]

NoneStarted == [sinfo |-> 0, squeue |-> 0]
NoneRan == [sinfo |-> "-", squeue |-> "-"]
NoneLeft == [get_nodes |-> "-", get_jobs |-> "-", get_cluster_status |-> "-"]
NoneWarned == [nodes |-> 0, jobs |-> 0]
NoSubject == [kind |-> "none"]
NoResult == [fn |-> "none"]

\* nothing is being evaluated outside a command
EvalIdle ==
    /\ csv = <<>>
    /\ subject = NoSubject
    /\ result = NoResult

\* no command is running
CliIdle ==
    /\ args = [cmd |-> "none", view |-> "standard", watch |-> <<>>, issues |-> FALSE,
               format |-> "table"]
    /\ env = [sinfo |-> <<>>, squeue |-> <<>>, file_ok |-> TRUE]
    /\ pc = "idle"
    /\ loopOn = FALSE
    /\ exitCode = -1
    /\ leaving = NoExc
    /\ fetches = 0
    /\ probes = 0
    /\ queries = 0
    /\ started = NoneStarted
    /\ ran = NoneRan
    /\ left = NoneLeft
    /\ warned = NoneWarned
    /\ interrupted = FALSE
    /\ connected = "untested"
    /\ raised = NoExc

\* a ClusterStatus built from the records ns and the jobs js, nothing evaluated yet
ClusterInit(ns, js) ==
    /\ fetched = ns
    /\ nodes = ns
    /\ jobs = js
    /\ table = NoTable
    /\ rendered = 0
    /\ stats = <<>>
    /\ summary = NoSummary
    /\ done = {}

(***************************************************************************)
(* Operations on a ClusterStatus                                           *)
(***************************************************************************)
\* the numbers create_summary_panel reads from the cluster
SummaryOf(ns) ==
    [total |-> total_nodes(ns),
     idle |-> idle_nodes(ns),
     down |-> down_nodes(ns),
     mixed |-> Cardinality({i \in 1..Len(ns) : is_mixed(ns[i])}),
     allocated |-> Cardinality({i \in 1..Len(ns) : InList("ALLOCATED", ns[i].state)}),
     total_cpus |-> total_cpus(ns),
     allocated_cpus |-> allocated_cpus(ns),
     cpu_utilization |-> cluster_cpu_utilization(ns)]

\* formatter.create_nodes_table(cluster, issues_only=...)
CreateNodesTable ==
    /\ pc = "idle"
    /\ UNCHANGED evalVars
    /\ rendered < MaxRender
    /\ \E issues_only \in BOOLEAN :
          LET r == create_nodes_table(nodes, jobs, issues_only)
          IN  /\ nodes' = r.nodes
              /\ table' = [entries |-> r.entries, rows |-> r.rows,
                           issues_only |-> issues_only]
    /\ rendered' = rendered + 1
    /\ done' = done \cup {"table"}
    /\ UNCHANGED <<fetched, jobs, stats, summary, cliVars>>

\* cluster.partition_stats
PartitionStats ==
    /\ pc = "idle"
    /\ UNCHANGED evalVars
    /\ stats' = partition_stats(nodes)
    /\ done' = done \cup {"stats"}
    /\ UNCHANGED <<fetched, nodes, jobs, table, rendered, summary, cliVars>>

\* formatter.create_summary_panel(cluster)
SummaryPanel ==
    /\ pc = "idle"
    /\ UNCHANGED evalVars
    /\ summary' = SummaryOf(nodes)
    /\ done' = done \cup {"summary"}
    /\ UNCHANGED <<fetched, nodes, jobs, table, rendered, stats, cliVars>>

NextCluster == CreateNodesTable \/ PartitionStats \/ SummaryPanel

(***************************************************************************)
(* One run of a command                                                    *)
(***************************************************************************)
\* the exception e leaves the command function and the process ends
Terminate(e) ==
    /\ pc' = "exited"
    /\ leaving' = e
    /\ exitCode' = ProcessExit(e)

\* the exception e leaves the polling loop, or the single call, of handle_watch_mode
LeaveWatch(e) == Terminate(IF loopOn THEN watch_handler(e) ELSE e)

\* the exception e is raised inside the try block of fetch_and_display
LeaveFetch(e) ==
    /\ raised' = e
    /\ LeaveWatch(fetch_and_display_handler(e, env.file_ok))

\* the job query taken first by every command
FirstQueryJobs == "get_jobs"

FirstQuery == IF args.cmd = "jobs" THEN "get_jobs" ELSE "get_nodes"

\* validate_slurm_connection()
ValidateConnection(o) ==
    /\ pc = "start"
    /\ UNCHANGED <<csv, subject>>
    /\ probes' = probes + 1
    /\ result' = [fn |-> "test_connection", outcome |-> o,
                  exc |-> test_connection(o).exc, value |-> test_connection(o).value]
    /\ LET r == test_connection(o) IN
         IF r.exc # NoExc THEN Terminate(r.exc) /\ UNCHANGED connected
         ELSE IF ~r.value
         THEN connected' = "no" /\ Terminate(stderr_print_then_exit1(env.file_ok))
         ELSE /\ connected' = "yes"
              /\ pc' = IF args.cmd = "status" THEN "validate_view" ELSE "watch_entry"
              /\ UNCHANGED <<leaving, exitCode>>
    /\ UNCHANGED <<clusterVars, args, env, loopOn, fetches, queries, started, ran,
                   left, warned, interrupted, raised>>

\* the view level taken as given, looked up only when it is used
ValidateViewAccepting ==
    /\ pc = "validate_view"
    /\ UNCHANGED evalVars
    /\ pc' = "watch_entry"
    /\ UNCHANGED <<clusterVars, args, env, loopOn, exitCode, leaving, fetches, probes,
                   queries, started, ran, left, warned, interrupted, connected, raised>>

\* validate_view_level(view)
ValidateView ==
    /\ pc = "validate_view"
    /\ UNCHANGED evalVars
    /\ IF args.view \notin VIEW_LEVELS THEN Terminate("Exit1")
       ELSE pc' = "watch_entry" /\ UNCHANGED <<leaving, exitCode>>
    /\ UNCHANGED <<clusterVars, args, env, loopOn, fetches, probes, queries, started,
                   ran, left, warned, interrupted, connected, raised>>

\* handle_watch_mode up to the first call of fetch_function: watch is <<>>
\* for None and <<n>> for the interval n
HandleWatchMode ==
    /\ pc = "watch_entry"
    /\ UNCHANGED evalVars
    /\ IF args.watch = <<>> \/ args.watch[1] = 0
       THEN pc' = "fetch" /\ UNCHANGED <<loopOn, leaving, exitCode>>
       ELSE IF args.watch[1] < 1
       THEN Terminate("Exit1") /\ UNCHANGED loopOn
       ELSE pc' = "clear" /\ loopOn' = TRUE /\ UNCHANGED <<leaving, exitCode>>
    /\ UNCHANGED <<clusterVars, args, env, fetches, probes, queries, started, ran,
                   left, warned, interrupted, connected, raised>>

\* console.clear() at the top of the polling loop
Clear ==
    /\ pc = "clear"
    /\ UNCHANGED evalVars
    /\ fetches < MaxFetch
    /\ pc' = "fetch"
    /\ UNCHANGED <<clusterVars, args, env, loopOn, exitCode, leaving, fetches, probes,
                   queries, started, ran, left, warned, interrupted, connected, raised>>

\* fetch_function() is called
BeginFetch ==
    /\ pc = "fetch"
    /\ csv' = <<>>
    /\ UNCHANGED <<subject, result>>
    /\ fetches' = fetches + 1
    /\ started' = NoneStarted
    /\ ran' = NoneRan
    /\ left' = NoneLeft
    /\ warned' = NoneWarned
    /\ pc' = FirstQuery
    /\ fetched' = <<>> /\ nodes' = <<>> /\ jobs' = <<>> /\ table' = NoTable
    /\ rendered' = 0 /\ stats' = <<>> /\ summary' = NoSummary /\ done' = {}
    /\ UNCHANGED <<args, env, loopOn, exitCode, leaving, probes, queries, interrupted,
                   connected, raised>>

\* get_nodes(...) inside get_cluster_status; o is what sinfo does
GetNodes(o) ==
    /\ pc = "get_nodes"
    /\ UNCHANGED evalVars
    /\ LET r == get_nodes(o, env.sinfo) IN
         /\ started' = [started EXCEPT !.sinfo = @ + command_starts(o)]
         /\ queries' = queries + command_starts(o)
         /\ ran' = [ran EXCEPT !.sinfo = o]
         /\ warned' = [warned EXCEPT !.nodes = r.warnings]
         /\ fetched' = r.value
         /\ IF r.exc = NoExc
            THEN /\ left' = [left EXCEPT !.get_nodes = NoExc]
                 /\ pc' = "get_jobs"
                 /\ UNCHANGED <<leaving, exitCode, raised>>
            ELSE /\ left' = [left EXCEPT !.get_nodes = r.exc,
                                         !.get_cluster_status = cluster_status_handler(r.exc)]
                 /\ LeaveFetch(cluster_status_handler(r.exc))
    /\ interrupted' = (interrupted \/ (o = "interrupt" /\ loopOn))
    /\ UNCHANGED <<nodes, jobs, table, rendered, stats, summary, done, args, env,
                   loopOn, fetches, probes, connected>>

\* get_jobs(...), called by get_cluster_status (status, nodes) or directly
\* (jobs); o is what squeue does
GetJobs(o) ==
    /\ pc = "get_jobs"
    /\ UNCHANGED evalVars
    /\ LET r == get_jobs(o, env.squeue)
           viaStatus == args.cmd # "jobs"
           out == IF viaStatus THEN cluster_status_handler(r.exc) ELSE r.exc
       IN
         /\ started' = [started EXCEPT !.squeue = @ + command_starts(o)]
         /\ queries' = queries + command_starts(o)
         /\ ran' = [ran EXCEPT !.squeue = o]
         /\ warned' = [warned EXCEPT !.jobs = r.warnings]
         /\ left' = [left EXCEPT !.get_jobs = r.exc,
                                 !.get_cluster_status = IF viaStatus THEN out ELSE @]
         /\ IF r.exc = NoExc
            THEN /\ jobs' = r.value
                 /\ nodes' = fetched
                 /\ pc' = "display"
                 /\ UNCHANGED <<leaving, exitCode, raised>>
            ELSE /\ LeaveFetch(out)
                 /\ UNCHANGED <<nodes, jobs>>
    /\ interrupted' = (interrupted \/ (o = "interrupt" /\ loopOn))
    /\ UNCHANGED <<fetched, table, rendered, stats, summary, done, args, env,
                   loopOn, fetches, probes, connected>>

\* handle_watch_mode returning after the first fetch even in watch mode
AfterFetchReturning ==
    /\ UNCHANGED raised
    /\ Terminate(NoExc)

\* fetch_function returned normally
AfterFetch ==
    /\ UNCHANGED raised
    /\ IF loopOn THEN pc' = "sleep" /\ UNCHANGED <<leaving, exitCode>>
       ELSE Terminate(NoExc)

\* the rest of fetch_and_display of status and nodes: the issues filter and
\* print_cluster_status (summary panel, partition panel, node table)
DisplayCluster ==
    /\ pc = "display"
    /\ UNCHANGED <<subject, result>>
    /\ args.cmd \in {"status", "nodes"}
    /\ LET issues == args.cmd = "status" /\ args.issues
           cfg == IF args.cmd = "status" THEN view_config(args.view)
                  ELSE [show_summary |-> FALSE, show_partitions |-> FALSE]
       IN  IF issues /\ \E i \in 1..Len(nodes) : ~is_down(nodes[i])
           THEN \* n.is_draining: NodeInfo has no such attribute
                /\ LeaveFetch("AttributeError")
                /\ UNCHANGED <<nodes, table, rendered, stats, summary, done, csv>>
           ELSE IF args.format = "json"
           THEN \* the nodes and jobs are dumped as they are
                /\ AfterFetch
                /\ UNCHANGED <<nodes, table, rendered, stats, summary, done, csv>>
           ELSE IF args.format = "csv"
           THEN /\ csv' = CsvRows(nodes, jobs)
                /\ AfterFetch
                /\ UNCHANGED <<nodes, table, rendered, stats, summary, done>>
           ELSE LET r == create_nodes_table(nodes, jobs, issues) IN
                /\ summary' = IF cfg.show_summary THEN SummaryOf(nodes) ELSE summary
                /\ stats' = IF cfg.show_partitions THEN partition_stats(nodes) ELSE stats
                /\ nodes' = r.nodes
                /\ table' = [entries |-> r.entries, rows |-> r.rows, issues_only |-> issues]
                /\ rendered' = rendered + 1
                /\ done' = {"table"} \cup (IF cfg.show_summary THEN {"summary"} ELSE {})
                                     \cup (IF cfg.show_partitions THEN {"stats"} ELSE {})
                /\ csv' = <<>>
                /\ AfterFetch
    /\ UNCHANGED <<fetched, jobs, args, env, loopOn, fetches, probes, queries,
                   started, ran, left, warned, interrupted, connected>>

\* the rest of fetch_and_display of jobs up to print_jobs: an empty list
\* prints a notice, a non-empty one goes on to create_jobs_table
DisplayJobs ==
    /\ pc = "display"
    /\ UNCHANGED evalVars
    /\ args.cmd = "jobs"
    /\ IF jobs = <<>> THEN AfterFetch
       ELSE pc' = "tput" /\ UNCHANGED <<leaving, exitCode, raised>>
    /\ UNCHANGED <<clusterVars, args, env, loopOn, fetches, probes, queries,
                   started, ran, left, warned, interrupted, connected>>

\* create_jobs_table: the terminal width is read inside try/except, then the
\* table is built and printed
JobsTable ==
    /\ pc = "tput"
    /\ UNCHANGED evalVars
    /\ AfterFetch
    /\ UNCHANGED <<clusterVars, args, env, loopOn, fetches, probes, queries,
                   started, ran, left, warned, interrupted, connected>>

\* the refresh notice and time.sleep(watch)
Sleep ==
    /\ pc = "sleep"
    /\ UNCHANGED evalVars
    /\ pc' = "clear"
    /\ UNCHANGED <<clusterVars, args, env, loopOn, exitCode, leaving, fetches, probes,
                   queries, started, ran, left, warned, interrupted, connected, raised>>

\* KeyboardInterrupt raised at the current position, outside the scheduler
\* commands (GetNodes and GetJobs cover an interrupt while a command runs)
Interrupt ==
    /\ pc \in {"validate_view", "watch_entry", "clear", "fetch", "display", "tput", "sleep"}
    /\ UNCHANGED evalVars
    /\ interrupted' = (interrupted \/ loopOn)
    /\ CASE pc = "tput" ->
              \* the bare except around the terminal-width probe takes it
              AfterFetch
         [] pc = "display" -> LeaveFetch("KeyboardInterrupt")
         [] OTHER -> LeaveWatch("KeyboardInterrupt") /\ UNCHANGED raised
    /\ UNCHANGED <<clusterVars, args, env, loopOn, fetches, probes, queries,
                   started, ran, left, warned, connected>>

NextCli ==
    \/ \E o \in ProbeOutcomes : ValidateConnection(o)
    \/ ValidateView
    \/ HandleWatchMode
    \/ Clear
    \/ BeginFetch
    \/ \E o \in Outcomes : GetNodes(o)
    \/ \E o \in Outcomes : GetJobs(o)
    \/ DisplayCluster
    \/ DisplayJobs
    \/ JobsTable
    \/ Sleep
    \/ Interrupt

(***************************************************************************)
(* Single calls of methods and properties                                  *)
(***************************************************************************)
\* slurm.expand_hostlist(subject.hostlist); o is what scontrol does
ExpandHostlist(o) ==
    /\ subject.kind = "hostlist"
    /\ LET r == expand_hostlist(subject.hostlist, o, subject.stdout) IN
         result' = [fn |-> "expand_hostlist", outcome |-> o, ran |-> r.ran,
                    exc |-> r.exc, value |-> r.value]
    /\ UNCHANGED <<clusterVars, cliVars, csv, subject>>

NextHostlist == \E o \in ProbeOutcomes : ExpandHostlist(o)

\* job.remaining_time_minutes, read at the instant subject.now
RemainingTimeMinutes ==
    /\ subject.kind = "job"
    /\ result' = [fn |-> "remaining_time_minutes",
                  value |-> remaining_time_minutes(subject.job, subject.now)]
    /\ UNCHANGED <<clusterVars, cliVars, csv, subject>>

\* job.remaining_time_display, which reads remaining_time_minutes itself
RemainingTimeDisplay ==
    /\ subject.kind = "job"
    /\ result' = [fn |-> "remaining_time_display",
                  remaining |-> remaining_time_minutes(subject.job, subject.now),
                  value |-> remaining_time_display(subject.job, subject.now)]
    /\ UNCHANGED <<clusterVars, cliVars, csv, subject>>

NextJobTime == RemainingTimeMinutes \/ RemainingTimeDisplay

\* job.allocated_gpus
AllocatedGpus ==
    /\ subject.kind = "job"
    /\ result' = [fn |-> "allocated_gpus", value |-> allocated_gpus(subject.job)]
    /\ UNCHANGED <<clusterVars, cliVars, csv, subject>>

\* job.gpu_type_info
GpuTypeInfo ==
    /\ subject.kind = "job"
    /\ result' = [fn |-> "gpu_type_info", value |-> gpu_type_info(subject.job)]
    /\ UNCHANGED <<clusterVars, cliVars, csv, subject>>

NextJobTres == AllocatedGpus \/ GpuTypeInfo

\* node.gpu_info
GpuInfo ==
    /\ subject.kind = "node"
    /\ result' = [fn |-> "gpu_info", value |-> gpu_info(subject.node)]
    /\ UNCHANGED <<clusterVars, cliVars, csv, subject>>

NextGres == GpuInfo

\* the state filter of cmon nodes --state subject.state applied to the
\* nodes get_cluster_status returned
NodesStateFilter ==
    /\ subject.kind = "nodes"
    /\ result' = [fn |-> "nodes_state_filter",
                  value |-> nodes_state_filter(subject.nodes, subject.state)]
    /\ UNCHANGED <<clusterVars, cliVars, csv, subject>>

NextNodesFilter == NodesStateFilter

\* cmon jobs --sort subject.sort --limit subject.limit, from the list
\* get_jobs returned to the rows of the table
SortAndPrintJobs ==
    /\ subject.kind = "jobs"
    /\ result' = [fn |-> "print_jobs",
                  sorted |-> sort_jobs(subject.jobs, subject.sort),
                  value |-> print_jobs(sort_jobs(subject.jobs, subject.sort), subject.limit)]
    /\ UNCHANGED <<clusterVars, cliVars, csv, subject>>

NextJobsSort == SortAndPrintJobs

(***************************************************************************)
(* Inputs                                                                  *)
(***************************************************************************)
PartA == <<"a">>
PartB == <<"b">>
PartAB == <<"a", "b">>
MergeParts == {None, PartA, PartB, PartAB}
MergeNames == {CPU01, CPU02}
MergeNodes == {[DefaultNode EXCEPT !.name = nm, !.partition_name = p] :
                  nm \in MergeNames, p \in MergeParts}

JobOn(id, hosts) == [job_id |-> id, nodes |-> hosts]
SomeJobs == {<<>>, <<JobOn(1, CPU01 \o <<",">> \o CPU02), JobOn(2, CPU01)>>}

\* node collections whose records repeat names under several partitions
InitMerge == \E ns \in SeqsUpTo(MergeNodes, MaxNodes) : \E js \in SomeJobs : ClusterInit(ns, js) /\ CliIdle /\ EvalIdle
SpecMerge == InitMerge /\ [][NextCluster]_vars

\* node collections for the partition-group rollup: names inside and outside
\* the groups, with differing resources
RollupNames == {CPU01, CPU02, GPU01, BAREPFX}
RollupNodes ==
    {[DefaultNode EXCEPT !.name = nm, !.cpus_total = 4, !.cpus_allocated = 2,
                         !.memory_total = 8, !.memory_allocated = 4,
                         !.gres_total = GRES_L40S_4, !.gres_used = GRES_L40S_2] :
        nm \in RollupNames}
    \cup {[DefaultNode EXCEPT !.name = nm, !.partition_name = PartA,
                              !.cpus_total = 2, !.cpus_allocated = 1,
                              !.memory_total = 4, !.memory_allocated = 1,
                              !.gres_total = GRES_A_1, !.gres_used = GRES_BAD] :
        nm \in RollupNames}
    \cup {[DefaultNode EXCEPT !.name = nm, !.partition_name = PartB,
                              !.cpus_total = 0, !.memory_total = 0, !.memory_free = 0] :
        nm \in RollupNames}

InitRollup == \E ns \in SeqsUpTo(RollupNodes, MaxNodes) : ClusterInit(ns, <<>>) /\ CliIdle /\ EvalIdle
SpecRollup == InitRollup /\ [][NextCluster]_vars

\* node collections with and without CPUs, memory and GPUs, in two groups
UtilNodes ==
    {[DefaultNode EXCEPT !.name = nm, !.cpus_total = 4, !.cpus_allocated = 2,
                         !.memory_total = 8, !.memory_free = 2, !.memory_allocated = 4,
                         !.gres_total = GRES_L40S_4, !.gres_used = GRES_L40S_2] :
        nm \in {CPU01, GPU01}}
    \cup {[DefaultNode EXCEPT !.name = nm, !.cpus_total = 0, !.memory_total = 0,
                              !.memory_free = 0] :
        nm \in {CPU01, GPU01}}

InitUtil == \E ns \in SeqsUpTo(UtilNodes, MaxNodes) : ClusterInit(ns, <<>>) /\ CliIdle /\ EvalIdle
SpecUtil == InitUtil /\ [][NextCluster]_vars

\* node collections in one group whose free and allocated memory vary
\* independently of each other
MemoryNodes ==
    {[DefaultNode EXCEPT !.name = nm, !.memory_total = 8, !.memory_free = f,
                         !.memory_allocated = a] :
        nm \in {CPU01, CPU02}, f \in {2, 6}, a \in {0, 4}}
    \cup {[DefaultNode EXCEPT !.name = CPU01, !.memory_total = 0, !.memory_free = 0]}

InitMemory == \E ns \in SeqsUpTo(MemoryNodes, MaxNodes) : ClusterInit(ns, <<>>) /\ CliIdle /\ EvalIdle
SpecMemory == InitMemory /\ [][NextCluster]_vars

\* one node carrying every list of up to MaxTags state tags
Tags == {"DOWN", "DRAIN", "DRNG", "MIXED", "ALLOCATED", "IDLE", "RESERVED"}
InitState ==
    \E st \in SeqsUpTo(Tags, MaxTags) : \E js \in SomeJobs :
        ClusterInit(<<[DefaultNode EXCEPT !.state = st]>>, js) /\ CliIdle /\ EvalIdle
SpecState == InitState /\ [][NextCluster]_vars

\* raw records: well-formed, well-formed without a name (without a job id),
\* and three ways of failing to parse
RawNodes ==
    {RawNode("dict", TRUE, <<CPU01>>, TRUE, PartA),
     RawNode("dict", TRUE, <<GPU01>>, TRUE, PartB),
     RawNode("dict", FALSE, <<>>, TRUE, PartA),
     RawNode("dict", TRUE, <<>>, TRUE, PartA),
     RawNode("dict", TRUE, <<CPU02>>, FALSE, PartA),
     RawNode("str", FALSE, <<>>, TRUE, None)}
RawJobs ==
    {RawJob("dict", 1, TRUE, TRUE, CPU01),
     RawJob("dict", 2, TRUE, TRUE, CPU01 \o <<",">> \o GPU01),
     RawJob("dict", 0, TRUE, TRUE, <<>>),
     RawJob("dict", 3, FALSE, TRUE, CPU01),
     RawJob("dict", 4, TRUE, FALSE, CPU01),
     RawJob("str", 0, TRUE, TRUE, <<>>)}

Views == VIEW_LEVELS \cup {"bogus"}
Watches == {<<>>, <<0>>, <<-1>>, <<2>>}

CliStart(a, e) ==
    /\ args = a
    /\ env = e
    /\ pc = "start"
    /\ loopOn = FALSE
    /\ exitCode = -1
    /\ leaving = NoExc
    /\ fetches = 0
    /\ probes = 0
    /\ queries = 0
    /\ started = NoneStarted
    /\ ran = NoneRan
    /\ left = NoneLeft
    /\ warned = NoneWarned
    /\ interrupted = FALSE
    /\ connected = "untested"
    /\ raised = NoExc
    /\ EvalIdle
    /\ ClusterInit(<<>>, <<>>)

\* every command line, against a scheduler holding one of a few batches
CliSinfo == {<<>>,
             <<RawNode("dict", TRUE, <<CPU01>>, TRUE, PartA),
               RawNode("dict", TRUE, <<CPU01>>, TRUE, PartB)>>,
             <<[RawNode("dict", TRUE, <<CPU01>>, TRUE, PartA) EXCEPT !.typed = FALSE]>>}
CliSqueue == {<<>>, <<RawJob("dict", 1, TRUE, TRUE, CPU01)>>,
              <<RawJob("dict", 1, TRUE, TRUE, CPU01),
                RawJob("dict", 2, TRUE, TRUE, CPU01 \o <<"1">>)>>}
Formats == {"table", "json", "csv"}

InitCli ==
    \E c \in {"status", "jobs", "nodes"} : \E v \in Views : \E w \in Watches :
    \E i \in BOOLEAN : \E f \in BOOLEAN : \E si \in CliSinfo : \E sq \in CliSqueue :
    \E fm \in Formats :
        /\ (c # "status" => v = "standard" /\ ~i)
        /\ (c # "status" => fm = "table")
        /\ CliStart([cmd |-> c, view |-> v, watch |-> w, issues |-> i, format |-> fm],
                    [sinfo |-> si, squeue |-> sq, file_ok |-> f])
SpecCli == InitCli /\ [][NextCli]_vars

\* the steps the program takes by itself; an interrupt is the user's
ProgramStep ==
    \/ \E o \in ProbeOutcomes : ValidateConnection(o)
    \/ ValidateView
    \/ HandleWatchMode
    \/ Clear
    \/ BeginFetch
    \/ \E o \in Outcomes : GetNodes(o)
    \/ \E o \in Outcomes : GetJobs(o)
    \/ DisplayCluster
    \/ DisplayJobs
    \/ JobsTable
    \/ Sleep

\* the same runs, the program never stopping by itself: every scheduler
\* command ends (it has a timeout) and every sleep ends
SpecWatch == InitCli /\ [][NextCli]_vars /\ WF_vars(ProgramStep)

\* runs of status and jobs against every batch of up to MaxBatch records
InitBatch ==
    \E c \in {"status", "jobs"} : \E w \in {<<>>, <<2>>} :
    \E si \in SeqsUpTo(RawNodes, MaxBatch) : \E sq \in SeqsUpTo(RawJobs, MaxBatch) :
        /\ (c = "jobs" => si = <<>>)
        /\ (c = "status" => sq = <<>>)
        /\ (w # <<>> => Len(si) <= 1 /\ Len(sq) <= 1)
        /\ CliStart([cmd |-> c, view |-> "standard", watch |-> w, issues |-> FALSE,
                     format |-> "table"],
                    [sinfo |-> si, squeue |-> sq, file_ok |-> TRUE])
SpecBatch == InitBatch /\ [][NextCli]_vars

\* host list expressions, plain names and blank strings, and what scontrol
\* prints when it succeeds
N1 == <<"n", "1">>
N2 == <<"n", "2">>
Hostlists == {<<>>, <<" ">>, N1, <<" ">> \o N1 \o <<" ">>, N1 \o <<",">> \o N2,
              <<"n", "[", "1", "-", "2", "]">>, <<"n", "[">>, <<",">>}
HostStdouts == {<<>>, <<N1, N2>>, <<<<" ">> \o N1, <<>>, N2 \o <<" ">>>>}

\* the object s is at hand, no command is running and nothing is evaluated yet
EvalInit(s) ==
    /\ ClusterInit(<<>>, <<>>)
    /\ CliIdle
    /\ csv = <<>>
    /\ result = NoResult
    /\ subject = s

InitHostlist ==
    \E h \in Hostlists : \E out \in HostStdouts :
        EvalInit([kind |-> "hostlist", hostlist |-> h, stdout |-> out])
SpecHostlist == InitHostlist /\ [][NextHostlist]_vars

\* jobs with and without a time limit (0 included) and a start time, the
\* start lying before, at or after the instant of the reading
MaxLimit == 200
ClockNow == 500000
ElapsedSeconds == {-172800, -86400, -72000, -3600, -61, -60, -59, -1, 0, 1, 59, 60, 61,
                   5400, 12000}
TimeLimits == {<<>>} \cup {<<l>> : l \in 0..MaxLimit}
StartTimes == {<<>>} \cup {<<ClockNow - e>> : e \in ElapsedSeconds}

InitJobTime ==
    \E l \in TimeLimits : \E st \in StartTimes :
        EvalInit([kind |-> "job", now |-> ClockNow,
                  job |-> [DefaultJob EXCEPT !.time_limit = l, !.start_time = st]])
SpecJobTime == InitJobTime /\ [][NextJobTime]_vars

\* allocated-resource strings: up to MaxItems items joined by commas, with
\* generic and typed GPU keys, values that are and are not integers, blanks
\* around key and value, repeated keys and an item without "="
MaxItems == 3
Item(key, value) == key \o <<"=">> \o value
TresItems ==
    {Item(<<"c", "p", "u">>, <<"4">>),
     Item(GRES_GPU, <<"2">>), Item(GRES_GPU, <<"x">>), Item(GRES_GPU, <<"0">>),
     Item(GRES_GPU_TYPED \o <<"a">>, <<"1">>), Item(GRES_GPU_TYPED \o <<"a">>, <<"0">>),
     Item(GRES_GPU_TYPED \o <<"b">>, <<"3">>), Item(GRES_GPU_TYPED \o <<"b">>, <<"x">>),
     Item(<<" ">> \o GRES_GPU_TYPED \o <<"l", "4", "0", "s", " ">>, <<" ", "2", " ">>),
     <<"m", "e", "m">>}

RECURSIVE JoinComma(_)
JoinComma(items) ==
    IF items = <<>> THEN <<>>
    ELSE IF Len(items) = 1 THEN items[1]
    ELSE items[1] \o <<",">> \o JoinComma(Tail(items))

InitJobTres ==
    \E items \in SeqsUpTo(TresItems, MaxItems) :
        EvalInit([kind |-> "job", now |-> ClockNow,
                  job |-> [DefaultJob EXCEPT !.tres_alloc_str = JoinComma(items)]])
SpecJobTres == InitJobTres /\ [][NextJobTres]_vars

\* GRES strings: a text without the marker, then up to MaxMarks times the
\* marker followed by a body; gres_used names GPUs only where gres_total does
MaxMarks == 2
GresHeads == {<<>>, <<"a", ":", "1">>, <<"x", ",">>}
GresBodies ==
    {<<>>, <<"4">>, <<"a", ":">>, <<"a", ":", "2">>, <<"a", ":", "x">>,
     <<"a", ":", "1", ",">>, <<"b", ":", "3", "(", "S", ":", "0", ")">>,
     <<"b", ":", " ", "2", " ", ",">>, <<"a", ":", "4", ":", "5">>,
     <<"l", "4", "0", "s", ":", "4", "(", "I", "D", "X", ":", "0", "-", "3", ")">>}

RECURSIVE JoinMarked(_)
JoinMarked(bodies) ==
    IF bodies = <<>> THEN <<>> ELSE GPUMARK \o Head(bodies) \o JoinMarked(Tail(bodies))

InitGres ==
    \E head \in GresHeads : \E bodies \in SeqsUpTo(GresBodies, MaxMarks) :
    \E used \in {GRES_NONE, GRES_L40S_2, GRES_BAD} :
        /\ (bodies = <<>> => used = GRES_NONE)
        /\ EvalInit([kind |-> "node",
                     node |-> [DefaultNode EXCEPT !.gres_total = head \o JoinMarked(bodies),
                                                  !.gres_used = used]])
SpecGres == InitGres /\ [][NextGres]_vars

\* node collections in the states the scheduler reports, and the values the
\* --state option documents, the option left out (None) included
StateLists == {<<"IDLE">>, <<"MIXED">>, <<"ALLOCATED">>, <<"DOWN">>, <<"IDLE", "DRAIN">>,
               <<"MIXED", "DRNG">>}
DocumentedStates == {<<"i", "d", "l", "e">>, <<"m", "i", "x", "e", "d">>,
                     <<"a", "l", "l", "o", "c", "a", "t", "e", "d">>,
                     <<"d", "o", "w", "n">>, <<"d", "r", "a", "i", "n">>}

InitNodesFilter ==
    \E sts \in SeqsUpTo(StateLists, MaxNodes) : \E st \in DocumentedStates \cup {None} :
        EvalInit([kind |-> "nodes", state |-> st,
                  nodes |-> [i \in 1..Len(sts) |-> [DefaultNode EXCEPT !.state = sts[i]]]])
SpecNodesFilter == InitNodesFilter /\ [][NextNodesFilter]_vars

\* job lists of up to MaxJobs jobs that differ in id, user, start time, node
\* count and GPU count, every documented sort key and a few limits
MaxJobs == 3
SortJob(id, user, start, hosts, tres) ==
    [DefaultJob EXCEPT !.start_time = start, !.tres_alloc_str = tres]
        @@ [job_id |-> id, user_name |-> user, nodes |-> hosts]
SortJobs ==
    {SortJob(1, <<"b">>, <<30>>, CPU01, <<>>),
     SortJob(2, <<"a">>, <<10>>, CPU01 \o <<",">> \o CPU02, Item(GRES_GPU, <<"2">>)),
     SortJob(3, <<"a", "b">>, <<>>, CPU02, Item(GRES_GPU, <<"1">>)),
     SortJob(4, <<"b">>, <<30>>, CPU01 \o <<",">> \o CPU02, <<>>),
     SortJob(5, <<"c">>, <<20>>, GPU01, Item(GRES_GPU, <<"2">>))}
SortKeys == {"id", "user", "start_time", "nodes", "gpu"}
Limits == {<<>>, <<0>>, <<1>>, <<2>>, <<-1>>}

InitJobsSort ==
    \E js \in SeqsUpTo(SortJobs, MaxJobs) : \E k \in SortKeys : \E l \in Limits :
        EvalInit([kind |-> "jobs", jobs |-> js, sort |-> k, limit |-> l])
SpecJobsSort == InitJobsSort /\ [][NextJobsSort]_vars

(***************************************************************************)
(* Properties                                                              *)
(***************************************************************************)
\* the distinct elements of a sequence in order of first occurrence
RECURSIVE DistinctInOrder(_)
DistinctInOrder(s) ==
    IF s = <<>> THEN <<>>
    ELSE LET front == DistinctInOrder(SubSeq(s, 1, Len(s) - 1))
         IN  IF InList(s[Len(s)], front) THEN front ELSE Append(front, s[Len(s)])

RECURSIVE JoinPlus(_)
JoinPlus(l) ==
    IF l = <<>> THEN <<>>
    ELSE IF Len(l) = 1 THEN l[1]
    ELSE l[1] \o <<"+">> \o JoinPlus(Tail(l))

\* the partition names of the fetched records called nm, in order
RECURSIVE PartitionsOf(_, _)
PartitionsOf(ns, nm) ==
    IF ns = <<>> THEN <<>>
    ELSE (IF Head(ns).name = nm /\ Truthy(Head(ns).partition_name)
          THEN <<Head(ns).partition_name>> ELSE <<>>) \o PartitionsOf(Tail(ns), nm)

FetchedNames == {fetched[i].name : i \in 1..Len(fetched)}

EntriesNamed(nm) == {k \in 1..Len(table.entries) : table.entries[k].name = nm}

\* C1: after the node table is built, every fetched node name has exactly one
\* entry, whose partition_name is the '+'-joined list of all distinct partition
\* names of the records of that name, in order of first occurrence.
C1_MergeKeepsEveryPartition ==
    rendered = 1 =>
        \A nm \in FetchedNames :
            /\ Cardinality(EntriesNamed(nm)) = 1
            /\ LET e == table.entries[CHOOSE k \in EntriesNamed(nm) : TRUE]
                   ps == DistinctInOrder(PartitionsOf(fetched, nm))
               IN  IF ps = <<>> THEN ~Truthy(e.partition_name)
                   ELSE e.partition_name = JoinPlus(ps)

\* sum of the values of a function with a finite domain
RECURSIVE SumFn(_)
SumFn(f) ==
    IF DOMAIN f = {} THEN 0
    ELSE LET x == CHOOSE y \in DOMAIN f : TRUE
         IN  f[x] + SumFn([y \in DOMAIN f \ {x} |-> f[y]])

\* the first record of the collection called nm
FirstNamed(ns, nm) ==
    ns[CHOOSE i \in 1..Len(ns) : ns[i].name = nm /\ \A j \in 1..(i - 1) : ns[j].name # nm]

NamesWithPrefix(ns, prefix) == {ns[i].name : i \in {k \in 1..Len(ns) : StartsWith(ns[k].name, prefix)}}

\* C2: each group's node_count is the number of distinct node names with the
\* group's prefix, and its CPU, memory and GPU sums count each such name once;
\* names with no group prefix are in no group.
C2_RollupCountsEachNameOnce ==
    "stats" \in done =>
        \A g \in 1..Len(PartitionGroups) :
            LET grp == PartitionGroups[g]
                nms == NamesWithPrefix(nodes, grp.prefix)
            IN  IF nms = {} THEN grp.name \notin DOMAIN stats
                ELSE /\ grp.name \in DOMAIN stats
                     /\ stats[grp.name].node_count = Cardinality(nms)
                     /\ stats[grp.name].cpu_total =
                            SumFn([nm \in nms |-> FirstNamed(nodes, nm).cpus_total])
                     /\ stats[grp.name].cpu_allocated =
                            SumFn([nm \in nms |-> FirstNamed(nodes, nm).cpus_allocated])
                     /\ stats[grp.name].memory_total =
                            SumFn([nm \in nms |-> FirstNamed(nodes, nm).memory_total])
                     /\ stats[grp.name].memory_used =
                            SumFn([nm \in nms |-> FirstNamed(nodes, nm).memory_allocated])
                     /\ stats[grp.name].gpu_total =
                            SumFn([nm \in nms |-> gpu_info(FirstNamed(nodes, nm)).total])
                     /\ stats[grp.name].gpu_used =
                            SumFn([nm \in nms |-> gpu_info(FirstNamed(nodes, nm)).used])

\* a rollup over a collection holding a group's node twice and a node of no group
C2_Witness ==
    /\ "stats" \in done
    /\ \E i, j \in 1..Len(nodes) : i < j /\ nodes[i].name = nodes[j].name /\ GroupOf(nodes[i]) # 0
    /\ \E i \in 1..Len(nodes) : GroupOf(nodes[i]) = 0
    /\ \E nm \in DOMAIN stats : stats[nm].node_count = 1 /\ stats[nm].gpu_total > 0

\* the condition the specification gives for a down node
DownBySpec(st) ==
    InList("DOWN", st)
    \/ ((InList("DRAIN", st) \/ InList("DRNG", st)) /\ ~InList("IDLE", st))

\* C3: a node is counted as down exactly when DOWN is among its tags, or DRAIN
\* or DRNG is and IDLE is not.
C3_DownIffSpec ==
    "summary" \in done =>
        summary.down = Cardinality({i \in 1..Len(nodes) : DownBySpec(nodes[i].state)})

\* a draining node that still carries IDLE was counted and is not down
C3_Witness ==
    /\ "summary" \in done
    /\ \E i \in 1..Len(nodes) : InList("DRNG", nodes[i].state) /\ InList("IDLE", nodes[i].state)
    /\ summary.down = 0

PriorityRank(t) ==
    CASE t = "DOWN" -> 1 [] t = "DRAIN" -> 2 [] t = "DRNG" -> 3
      [] t = "MIXED" -> 4 [] t = "ALLOCATED" -> 5 [] t = "IDLE" -> 6 [] OTHER -> 7

\* C4: the displayed state is the tag of the list that ranks first in DOWN,
\* DRAIN, DRNG, MIXED, ALLOCATED, IDLE; the first raw tag when none of them
\* occurs; "unknown" for an empty list.
C4_DisplayStateByPriority ==
    \A r \in 1..Len(table.rows) :
        LET row == table.rows[r]
            st == FirstNamed(nodes, row.name).state
            ranked == {k \in 1..Len(st) : PriorityRank(st[k]) < 7}
        IN  IF st = <<>> THEN row.display_state = "unknown"
            ELSE IF ranked = {} THEN row.display_state = st[1]
            ELSE /\ InList(row.display_state, st)
                 /\ \A k \in ranked : PriorityRank(row.display_state) <= PriorityRank(st[k])

\* a row whose first raw tag is outranked by a later tag of its list
C4_Witness ==
    \E r \in 1..Len(table.rows) :
        LET st == FirstNamed(nodes, table.rows[r].name).state
        IN  /\ Len(st) >= 2
            /\ st[1] = "IDLE"
            /\ table.rows[r].display_state = "DRNG"

\* a raw node record whose parsing raises
NodeParseFails(raw) == raw.kind # "dict" \/ (raw.has_nodes /\ raw.names = <<>>) \/ ~raw.typed
\* a raw node record that parses to a node without a name
NodeNameless(raw) == ~NodeParseFails(raw) /\ ~raw.has_nodes

JobParseFails(raw) == raw.kind # "dict" \/ ~raw.envelopes \/ ~raw.typed
JobIdless(raw) == ~JobParseFails(raw) /\ raw.job_id = 0

\* the names (job ids) of the records that parse and carry one, in input order
RECURSIVE KeptNodeNames(_)
KeptNodeNames(batch) ==
    IF batch = <<>> THEN <<>>
    ELSE (IF NodeParseFails(Head(batch)) \/ NodeNameless(Head(batch)) THEN <<>>
          ELSE <<Head(batch).names[1]>>) \o KeptNodeNames(Tail(batch))

RECURSIVE KeptJobIds(_)
KeptJobIds(batch) ==
    IF batch = <<>> THEN <<>>
    ELSE (IF JobParseFails(Head(batch)) \/ JobIdless(Head(batch)) THEN <<>>
          ELSE <<Head(batch).job_id>>) \o KeptJobIds(Tail(batch))

Count(batch, Test(_)) == Cardinality({i \in 1..Len(batch) : Test(batch[i])})

NodesReturned == ran.sinfo = "ok"
JobsReturned == ran.squeue = "ok"

\* C5 as stated: on a valid response the call does not raise, returns the
\* entities of the well-formed records in input order, and has printed one
\* warning for every record it left out.
C5_OneWarningPerOmittedRecord ==
    /\ NodesReturned =>
          /\ left.get_nodes = NoExc
          /\ [i \in 1..Len(fetched) |-> fetched[i].name] = KeptNodeNames(env.sinfo)
          /\ warned.nodes = Len(env.sinfo) - Len(fetched)
    /\ JobsReturned =>
          /\ left.get_jobs = NoExc
          /\ [i \in 1..Len(jobs) |-> jobs[i].job_id] = KeptJobIds(env.squeue)
          /\ warned.jobs = Len(env.squeue) - Len(jobs)

\* C5 as amended: on a valid response the call does not raise; it returns the
\* entities of the records that parse and carry a name (a job id), in input
\* order; it prints one warning for each record whose parsing raises, and none
\* for a record that parses without a name (job id), which is left out silently.
C5_OneWarningPerParseFailure ==
    /\ NodesReturned =>
          /\ left.get_nodes = NoExc
          /\ [i \in 1..Len(fetched) |-> fetched[i].name] = KeptNodeNames(env.sinfo)
          /\ warned.nodes = Count(env.sinfo, NodeParseFails)
          /\ Len(fetched) + warned.nodes + Count(env.sinfo, NodeNameless) = Len(env.sinfo)
    /\ JobsReturned =>
          /\ left.get_jobs = NoExc
          /\ [i \in 1..Len(jobs) |-> jobs[i].job_id] = KeptJobIds(env.squeue)
          /\ warned.jobs = Count(env.squeue, JobParseFails)
          /\ Len(jobs) + warned.jobs + Count(env.squeue, JobIdless) = Len(env.squeue)

\* a batch of three: one record kept, one warned about, one dropped silently
C5_Witness ==
    /\ NodesReturned
    /\ Len(env.sinfo) = 3
    /\ Len(fetched) = 1
    /\ warned.nodes = 1
    /\ Count(env.sinfo, NodeNameless) = 1

FailedOutcomes == {"timeout", "nonzero", "empty", "badjson"}

\* C6: within one fetch each query command is started at most once; after a
\* timeout, a non-zero exit, empty or invalid output the fetch has ended in a
\* SlurmError delivered to the caller, and the run goes on to no further start.
C6_NoRetry ==
    /\ started.sinfo <= 1
    /\ started.squeue <= 1
    /\ ran.sinfo \in FailedOutcomes =>
          /\ left.get_nodes = "SlurmError"
          /\ left.get_cluster_status = "SlurmError"
          /\ raised = "SlurmError"
          /\ started.squeue = 0
          /\ pc = "exited"
    /\ ran.squeue \in FailedOutcomes =>
          /\ left.get_jobs = "SlurmError"
          /\ raised = "SlurmError"
          /\ pc = "exited"

\* the second fetch of a watch run timed out on sinfo, after one start
C6_Witness ==
    /\ loopOn
    /\ fetches = 2
    /\ ran.sinfo = "timeout"
    /\ started.sinfo = 1
    /\ pc = "exited"

QueryFailures == FailedOutcomes \cup {"notfound", "errors", "oserror", "notdict"}

\* C7: every failure of a query leaves get_nodes, get_jobs and
\* get_cluster_status as SlurmError, no other exception type leaves them, and
\* nothing is returned from a failed call.
C7_OnlySlurmError ==
    /\ \A op \in DOMAIN left :
          left[op] \in {"-", NoExc, "SlurmError", "KeyboardInterrupt"}
    /\ \A op \in DOMAIN left :
          left[op] = "KeyboardInterrupt" => "interrupt" \in {ran.sinfo, ran.squeue}
    /\ ran.sinfo \in QueryFailures =>
          /\ left.get_nodes = "SlurmError"
          /\ left.get_cluster_status = "SlurmError"
          /\ fetched = <<>> /\ nodes = <<>> /\ jobs = <<>>
    /\ ran.squeue \in QueryFailures =>
          /\ left.get_jobs = "SlurmError"
          /\ (args.cmd # "jobs" => left.get_cluster_status = "SlurmError")
          /\ nodes = <<>> /\ jobs = <<>>

\* squeue is missing while sinfo answered with records: SlurmError, no cluster
C7_Witness ==
    /\ ran.sinfo = "ok"
    /\ fetched # <<>>
    /\ ran.squeue = "notfound"
    /\ left.get_jobs = "SlurmError"
    /\ left.get_cluster_status = "SlurmError"

\* C8: exit status 1 when the connectivity test fails or a fetch-and-display
\* iteration ends in a query error or an unexpected exception, the run ending
\* there; exit status 0 when a single run completes without error.
C8_ExitStatus ==
    /\ connected = "no" => pc = "exited" /\ exitCode = 1 /\ fetches = 0
    /\ IsException(raised) => pc = "exited" /\ exitCode = 1
    /\ (pc = "exited" /\ ~loopOn /\ fetches = 1 /\ raised = NoExc) => exitCode = 0

\* a watch run whose second iteration ended in a query error
C8_Witness ==
    /\ loopOn
    /\ fetches = 2
    /\ ran.squeue = "badjson"
    /\ raised = "SlurmError"
    /\ exitCode = 1

\* C9: an interrupt delivered inside the polling loop ends the run at once
\* with exit status 0.
C9_InterruptEndsWatch ==
    interrupted => pc = "exited" /\ exitCode = 0

\* C10: a status run with an unknown view level issues no node or job query
\* and starts no fetch; it ends with exit status 1.
C10_ValidationBeforeQuery ==
    (args.cmd = "status" /\ args.view \notin {"compact", "standard", "detailed"}) =>
        /\ queries = 0
        /\ fetches = 0
        /\ pc \in {"start", "validate_view", "exited"}
        /\ pc = "exited" => exitCode = 1

\* the connectivity test passed and the unknown view level ended the run
C10_Witness ==
    /\ args.cmd = "status"
    /\ args.view = "bogus"
    /\ connected = "yes"
    /\ pc = "exited"
    /\ leaving = "Exit1"
    /\ exitCode = 1
    /\ queries = 0

\* C11: whenever the expansion command of expand_hostlist fails (non-zero
\* exit, timeout, or it cannot be started), the call raises nothing and
\* returns the list holding only the original pattern
C11_HostlistBestEffort ==
    (result.fn = "expand_hostlist" /\ result.ran
        /\ result.outcome \in {"nonzero", "timeout", "notfound", "oserror"})
    => (result.exc = NoExc /\ result.value = <<subject.hostlist>>)

\* C12: test_connection never raises: for every way the probe command can
\* fail (non-zero exit, timeout, binary missing, binary not executable or
\* another operating-system error at start) it returns false, and it returns
\* true only when the probe succeeds
C12_ProbeNeverRaises ==
    (result.fn = "test_connection" /\ result.outcome # "interrupt")
    => (result.exc = NoExc /\ (result.value <=> result.outcome = "ok"))

\* C13: remaining_time_minutes has no value exactly when the time limit or
\* the start time is absent; whenever both are set, whatever the limit
\* (0 included), it is a non-negative integer
C13_RemainingDefinedIffBothSet ==
    result.fn = "remaining_time_minutes"
    => /\ (result.value = <<>>)
            <=> (subject.job.time_limit = <<>> \/ subject.job.start_time = <<>>)
       /\ (subject.job.time_limit # <<>> /\ subject.job.start_time # <<>>)
            => (result.value # <<>> /\ result.value[1] \in Nat)

\* C14: for a positive time limit L and a start time S, before or after the
\* current instant, remaining_time_minutes is
\* max(0, L - floor((now - S) in seconds / 60))
C14_RemainingByFloor ==
    (result.fn = "remaining_time_minutes"
        /\ subject.job.time_limit # <<>> /\ subject.job.start_time # <<>>
        /\ subject.job.time_limit[1] > 0)
    => LET L == subject.job.time_limit[1]
           elapsed == (subject.now - subject.job.start_time[1]) \div 60
       IN  result.value = <<IF L - elapsed > 0 THEN L - elapsed ELSE 0>>

\* the display the claim gives for the remaining value r (<<>> for no
\* value), the leading figure of a span with days and hours carrying unit
DisplayBySpec(r, unit) ==
    IF r = <<>> THEN <<"-">>
    ELSE LET h == r[1] \div 60
             m == r[1] % 60
             d == r[1] \div 1440
             hd == (r[1] % 1440) \div 60
         IN  CASE r[1] = 0 -> <<"0", "m">>
               [] 0 < r[1] /\ r[1] < 60 -> Str(r[1]) \o <<"m">>
               [] 60 <= r[1] /\ r[1] < 1440 /\ m = 0 -> Str(h) \o <<"h">>
               [] 60 <= r[1] /\ r[1] < 1440 /\ m # 0 ->
                      Str(h) \o <<"h", " ">> \o Str(m) \o <<"m">>
               [] r[1] >= 1440 /\ hd = 0 -> Str(d) \o <<"d">>
               [] r[1] >= 1440 /\ hd # 0 ->
                      Str(d) \o <<unit, " ">> \o Str(hd) \o <<"h">>

\* C15 as stated: remaining_time_display is "-" without a value, "0m" for 0,
\* "<r>m" below 60, "<h>h" or "<h>h <m>m" below 1440, and from 1440 on "<d>d"
\* when the hours left after full days are 0 and otherwise "<d>h <h>h"
C15_DisplayDaysAsHours ==
    result.fn = "remaining_time_display"
    => result.value = DisplayBySpec(result.remaining, "h")

\* C15, amended: as above, but a span of days and hours reads "<d>d <h>h"
C15_DisplayByRange ==
    result.fn = "remaining_time_display"
    => result.value = DisplayBySpec(result.remaining, "d")

C15_Witness ==
    /\ result.fn = "remaining_time_display"
    /\ result.remaining = <<2945>>
    /\ result.value = <<"2", "d", " ", "1", "h">>

\* the keys of the allocated resources of the job at hand, in order
TresKeys == allocated_resources(subject.job)

\* the index of the first key satisfying Has, 0 if there is none
FirstKey(Has(_)) ==
    LET hits == {k \in 1..Len(TresKeys) : Has(TresKeys[k].key)}
    IN  IF hits = {} THEN 0 ELSE CHOOSE k \in hits : \A h \in hits : k <= h

IsTypedKey(key) == Contains(GRES_GPU_TYPED, key)
IsGpuKey(key) == Contains(GRES_GPU, key)

\* C16: gpu_type_info: when some key has the form gres/gpu:<type>, the first
\* such key alone gives {count: its integer value, type: <type> in upper
\* case, display: "<count>x<TYPE>"}; without a typed key the result is
\* {count: allocated_gpus, type: "", display: "<count>"}, the display being
\* "-" for the count 0
C16_TypedKeyAloneDecides ==
    result.fn = "gpu_type_info"
    => LET k == FirstKey(IsTypedKey) IN
       IF k = 0
       THEN result.value =
              [count |-> allocated_gpus(subject.job), type |-> <<>>,
               display |-> IF allocated_gpus(subject.job) = 0 THEN <<"-">>
                           ELSE Str(allocated_gpus(subject.job))]
       ELSE ParseInt(TresKeys[k].value).ok
            => LET type == Upper(SubSeq(TresKeys[k].key,
                                        Find(TresKeys[k].key, GRES_GPU_TYPED) + Len(GRES_GPU_TYPED),
                                        Len(TresKeys[k].key)))
                   count == ParseInt(TresKeys[k].value).val
               IN  result.value = [count |-> count, type |-> type,
                                   display |-> Str(count) \o <<"x">> \o type]

\* C17 as stated: allocated_gpus is decided by the first key, in order of
\* appearance, that contains gres/gpu: it is that key's value as an integer
\* (0 when there is no such key), and no later key affects it
C17_FirstGpuKeyDecides ==
    result.fn = "allocated_gpus"
    => LET k == FirstKey(IsGpuKey) IN
       result.value = IF k = 0 THEN 0 ELSE ParseInt(TresKeys[k].value).val

IsIntGpuEntry(k) == IsGpuKey(TresKeys[k].key) /\ ParseInt(TresKeys[k].value).ok

\* C17, amended: allocated_gpus is the integer value of the first key that
\* contains gres/gpu and whose value is an integer, and 0 when there is no
\* such key; keys containing gres/gpu whose value is no integer are passed over
C17_FirstIntegerGpuKeyDecides ==
    result.fn = "allocated_gpus"
    => LET hits == {k \in 1..Len(TresKeys) : IsIntGpuEntry(k)} IN
       /\ hits = {} => result.value = 0
       /\ \A k \in hits :
             (\A h \in hits : k <= h) => result.value = ParseInt(TresKeys[k].value).val

C17_Witness ==
    /\ result.fn = "allocated_gpus"
    /\ Len(TresKeys) = 3
    /\ IsGpuKey(TresKeys[1].key) /\ ~ParseInt(TresKeys[1].value).ok
    /\ IsIntGpuEntry(2) /\ IsIntGpuEntry(3)
    /\ ParseInt(TresKeys[2].value).val # ParseInt(TresKeys[3].value).val
    /\ result.value = ParseInt(TresKeys[2].value).val
    /\ result.value > 0

\* the gres_total string of the node at hand, the places where the marker
\* gpu: occurs in it, and the piece that follows the occurrence at i (up to
\* the next occurrence)
GresText == subject.node.gres_total
MarkerAt == {i \in 1..(Len(GresText) - Len(GPUMARK) + 1) : SubSeq(GresText, i, i + Len(GPUMARK) - 1) = GPUMARK}
PieceAfter(i) ==
    LET later == {j \in MarkerAt : j > i}
        stop == IF later = {} THEN Len(GresText)
                ELSE (CHOOSE j \in later : \A k \in later : j <= k) - 1
    IN  SubSeq(GresText, i + Len(GPUMARK), stop)

\* the characters of a text before the first of the characters in stops
UpTo(text, stops) ==
    LET at == {k \in 1..Len(text) : text[k] \in stops}
    IN  IF at = {} THEN text
        ELSE SubSeq(text, 1, (CHOOSE k \in at : \A h \in at : k <= h) - 1)

\* the text after the first ':' of a text holding one
AfterColon(text) == SubSeq(text, Len(UpTo(text, {":"})) + 2, Len(text))

\* C18 as stated: without the marker gpu: the result of gpu_info is
\* {total: 0, used: 0, type: ""}; with the marker, type is the segment that
\* follows the marker and total the integer formed by the next segment's
\* characters before the first '(' or ',', and 0 when they form no integer
C18_GresBySegments ==
    result.fn = "gpu_info"
    => IF MarkerAt = {}
       THEN result.value = [total |-> 0, used |-> 0, type |-> <<>>]
       ELSE \A i \in MarkerAt :
              (\A j \in MarkerAt : i <= j)
              => LET segments == SplitOn(SubSeq(GresText, i + Len(GPUMARK), Len(GresText)), <<":">>)
                     count == IF Len(segments) >= 2
                              THEN ParseInt(UpTo(segments[2], {"(", ","}))
                              ELSE [ok |-> FALSE, val |-> 0]
                 IN  /\ result.value.type = segments[1]
                     /\ result.value.total = IF count.ok THEN count.val ELSE 0

\* the occurrences of the marker whose piece holds a ':', and those among
\* them whose count (the characters after that ':' up to the first '(' or
\* ',') is an integer
TypedAt == {i \in MarkerAt : \E k \in 1..Len(PieceAfter(i)) : PieceAfter(i)[k] = ":"}
PieceCount(i) == ParseInt(UpTo(AfterColon(PieceAfter(i)), {"(", ","}))
CountedAt == {i \in TypedAt : PieceCount(i).ok}

\* C18, amended: without the marker gpu: total is 0 and type is ""; with it,
\* only the pieces that follow an occurrence of the marker and hold a ':'
\* count: type is the text before the first ':' of the last such piece ("" if
\* there is none) and total is the integer count of the last such piece whose
\* count is an integer (0 if there is none); used is 0 when gres_used has no
\* marker
C18_GresByLastTypedPiece ==
    result.fn = "gpu_info"
    => /\ TypedAt = {} => result.value.type = <<>>
       /\ \A i \in TypedAt :
             (\A j \in TypedAt : j <= i) => result.value.type = UpTo(PieceAfter(i), {":"})
       /\ CountedAt = {} => result.value.total = 0
       /\ \A i \in CountedAt :
             (\A j \in CountedAt : j <= i) => result.value.total = PieceCount(i).val
       /\ ~Contains(GPUMARK, subject.node.gres_used) => result.value.used = 0

C18_Witness ==
    /\ result.fn = "gpu_info"
    /\ Cardinality(MarkerAt) = 2
    /\ Cardinality(CountedAt) = 1
    /\ \E i \in TypedAt : \E j \in CountedAt : i > j
    /\ result.value.total = 3
    /\ result.value.type = <<"a">>

\* the host names of a job's node list (a comma-separated list of names)
HostnamesOf(j) == {Strip(SplitOn(j.nodes, <<",">>)[h]) : h \in 1..Len(SplitOn(j.nodes, <<",">>))}

\* C19: in the CSV export of the status command the Jobs column of every
\* node row is the number of jobs whose node list names that node as one of
\* its hostnames; a job on another node whose name merely includes this
\* node's name is not counted
C19_CsvJobsByHostname ==
    (pc = "exited" /\ args.cmd = "status" /\ args.format = "csv" /\ leaving = NoExc)
    => /\ Len(csv) = Len(nodes)
       /\ \A i \in 1..Len(csv) :
             csv[i].Jobs = Cardinality({k \in 1..Len(jobs) : nodes[i].name \in HostnamesOf(jobs[k])})

\* a utilization that was computed without an error
Computed(u) == u.den # 0

\* C20: cpu_utilization of a node is exactly 0 when cpus_total = 0 and
\* memory_utilization exactly 0 when memory_total = 0; the CPU utilization of
\* the cluster and the CPU, memory and GPU utilization of every group are 0
\* when their total is 0; none of them fails, for any node collection
C20_ZeroTotalGivesZero ==
    /\ \A r \in 1..Len(table.rows) : \A e \in 1..Len(table.entries) :
          table.entries[e].name = table.rows[r].name
          => /\ Computed(table.rows[r].cpu_utilization)
             /\ Computed(table.rows[r].memory_utilization)
             /\ table.entries[e].cpus_total = 0 => table.rows[r].cpu_utilization = Zero
             /\ table.entries[e].memory_total = 0 => table.rows[r].memory_utilization = Zero
    /\ "summary" \in done
          => /\ Computed(summary.cpu_utilization)
             /\ summary.total_cpus = 0 => summary.cpu_utilization = Zero
    /\ "stats" \in done
          => \A g \in DOMAIN stats :
                /\ Computed(stats[g].cpu_utilization)
                /\ Computed(stats[g].memory_utilization)
                /\ Computed(stats[g].gpu_utilization)
                /\ stats[g].cpu_total = 0 => stats[g].cpu_utilization = Zero
                /\ stats[g].memory_total = 0 => stats[g].memory_utilization = Zero
                /\ stats[g].gpu_total = 0 => stats[g].gpu_utilization = Zero

C20_Witness ==
    /\ done = {"table", "summary", "stats"}
    /\ Len(nodes) = 2
    /\ \E r \in 1..Len(table.rows) : \E e \in 1..Len(table.entries) :
          /\ table.entries[e].name = table.rows[r].name
          /\ table.entries[e].cpus_total = 0 /\ table.entries[e].memory_total = 0
          /\ table.rows[r].cpu_utilization = Zero
          /\ table.rows[r].memory_utilization = Zero
    /\ summary.total_cpus = 0 /\ summary.cpu_utilization = Zero
    /\ \E g \in DOMAIN stats :
          /\ stats[g].cpu_total = 0 /\ stats[g].memory_total = 0 /\ stats[g].gpu_total = 0
          /\ stats[g].cpu_utilization = Zero
          /\ stats[g].memory_utilization = Zero
          /\ stats[g].gpu_utilization = Zero

\* C21: a node's memory_utilization is (memory_total - memory_free) /
\* memory_total * 100 whatever its memory_allocated is, and a group's
\* memory_utilization is sum(memory_allocated) / sum(memory_total) * 100 over
\* the first record of each node name of the group whatever their
\* memory_free is
C21_MemoryConventions ==
    /\ \A r \in 1..Len(table.rows) : \A e \in 1..Len(table.entries) :
          (table.entries[e].name = table.rows[r].name /\ table.entries[e].memory_total > 0)
          => table.rows[r].memory_utilization =
                Ratio((table.entries[e].memory_total - table.entries[e].memory_free) * 100,
                      table.entries[e].memory_total)
    /\ "stats" \in done
          => \A g \in 1..Len(PartitionGroups) :
                LET grp == PartitionGroups[g]
                    nms == NamesWithPrefix(nodes, grp.prefix)
                    tm == SumFn([nm \in nms |-> FirstNamed(nodes, nm).memory_total])
                    am == SumFn([nm \in nms |-> FirstNamed(nodes, nm).memory_allocated])
                IN  tm > 0 => /\ grp.name \in DOMAIN stats
                              /\ stats[grp.name].memory_utilization = Ratio(am * 100, tm)

\* a node and its group were both measured, and for both the two conventions
\* give different numbers
C21_Witness ==
    /\ {"table", "stats"} \subseteq done
    /\ \E r \in 1..Len(table.rows) : \E e \in 1..Len(table.entries) :
          /\ table.entries[e].name = table.rows[r].name
          /\ table.entries[e].memory_total - table.entries[e].memory_free
                # table.entries[e].memory_allocated
          /\ table.rows[r].memory_utilization.num = 600
    /\ \E g \in DOMAIN stats :
          /\ stats[g].node_count = 2
          /\ stats[g].memory_utilization = Ratio(400, 16)

\* a node that is down or draining
HasIssues(n) == is_down(n) \/ \E i \in 1..Len(n.state) : n.state[i] \in {"DRAIN", "DRNG"}

\* C22: a run of status --issues (no watch) whose fetch succeeded and that no
\* interrupt cut short ends with exit code 0, and the nodes it shows are
\* exactly the fetched nodes that are down or draining, in order
C22_IssuesFilterCompletes ==
    (/\ pc = "exited" /\ args.cmd = "status" /\ args.issues /\ args.watch = <<>>
     /\ left.get_cluster_status = NoExc /\ raised # "KeyboardInterrupt")
    => /\ exitCode = 0
       /\ [i \in 1..Len(nodes) |-> nodes[i].name]
             = [i \in 1..Len(SelectSeq(fetched, HasIssues)) |->
                   SelectSeq(fetched, HasIssues)[i].name]

\* whether a node is in the state a documented value of --state names
InState(n, value) ==
    CASE value = <<"i", "d", "l", "e">> -> InList("IDLE", n.state)
      [] value = <<"m", "i", "x", "e", "d">> -> InList("MIXED", n.state)
      [] value = <<"a", "l", "l", "o", "c", "a", "t", "e", "d">> -> InList("ALLOCATED", n.state)
      [] value = <<"d", "o", "w", "n">> -> DownBySpec(n.state)
      [] value = <<"d", "r", "a", "i", "n">> -> InList("DRAIN", n.state) \/ InList("DRNG", n.state)

\* C23: for each value the --state option documents (idle, mixed, allocated,
\* down, drain), every node the nodes command keeps is in that state
C23_StateFilterKeepsOnlyThatState ==
    (result.fn = "nodes_state_filter" /\ subject.state \in DocumentedStates)
    => \A i \in 1..Len(result.value) : InState(result.value[i], subject.state)

\* whether job a may stand before job b in the order a sort key defines
InOrder(key, a, b) ==
    CASE key = "id" -> a.job_id <= b.job_id
      [] key = "user" -> ~StrLess(b.user_name, a.user_name)
      [] key = "nodes" -> Len(SplitOn(a.nodes, <<",">>)) <= Len(SplitOn(b.nodes, <<",">>))
      [] key = "gpu" -> allocated_gpus(a) >= allocated_gpus(b)
      [] key = "start_time" -> ~StartBefore(a, b)

\* C24: for each documented sort key the rows of the jobs table are in the
\* order the key defines (id, user and node count ascending, GPU count and
\* start time descending), and a limit N >= 0 leaves the first N jobs of the
\* sorted list
C24_TableInSortOrder ==
    (result.fn = "print_jobs" /\ (subject.limit = <<>> \/ subject.limit[1] >= 0))
    => /\ \A i, j \in 1..Len(result.value) :
             i < j => InOrder(subject.sort, result.value[i], result.value[j])
       /\ result.value = IF subject.limit = <<>> THEN result.sorted
                         ELSE SliceTo(result.sorted, subject.limit[1])

\* C25: a run given a watch interval smaller than 1 (0 or negative) performs
\* no fetch and ends with exit code 1, and the polling loop is entered only
\* with an interval of at least 1
C25_SubOneIntervalRejected ==
    /\ (args.watch # <<>> /\ args.watch[1] < 1)
          => /\ fetches = 0
             /\ pc \in {"start", "validate_view", "watch_entry", "exited"}
             /\ pc = "exited" => exitCode = 1
    /\ loopOn => (args.watch # <<>> /\ args.watch[1] >= 1)

\* C26: in a fetch of status or nodes the job query is started only after the
\* node query has completed without error, a failed node query is followed by
\* no job query, and get_cluster_status returns only when both queries
\* succeeded
C26_NodesBeforeJobs ==
    args.cmd \in {"status", "nodes"}
    => /\ started.squeue > 0 => (started.sinfo > 0 /\ left.get_nodes = NoExc)
       /\ left.get_nodes \notin {"-", NoExc} => (started.squeue = 0 /\ ran.squeue = "-")
       /\ left.get_cluster_status = NoExc
             => (left.get_nodes = NoExc /\ left.get_jobs = NoExc
                 /\ ran.sinfo = "ok" /\ ran.squeue = "ok")
       /\ pc = "display" => left.get_cluster_status = NoExc

\* the node query of a status run failed and the run ended without a job query
C26_Witness ==
    /\ args.cmd = "status"
    /\ pc = "exited"
    /\ ran.sinfo = "timeout"
    /\ left.get_nodes = "SlurmError"
    /\ left.get_cluster_status = "SlurmError"
    /\ started = [sinfo |-> 1, squeue |-> 0]

\* C27: the polling loop is left only when a user interrupt arrived or an
\* iteration failed; every passage of the loop calls the fetch function anew;
\* and from every point of the loop the run goes on to the next fetch unless
\* it is ended
C27_WatchLoopProgress ==
    /\ []((loopOn /\ pc = "exited") => (interrupted \/ IsException(raised)))
    /\ [][(loopOn /\ pc = "clear" /\ pc' # "clear") => pc' \in {"fetch", "exited"}]_vars
    /\ [][(loopOn /\ pc = "fetch" /\ pc' \notin {"fetch", "exited"})
             => fetches' = fetches + 1]_vars
    /\ \A k \in 0..(MaxFetch - 1) :
          (loopOn /\ fetches = k) ~> (pc = "exited" \/ fetches = k + 1)

\* the loop has completed MaxFetch iterations without interrupt or failure and sleeps
C27_Witness ==
    /\ loopOn
    /\ pc = "sleep"
    /\ fetches = MaxFetch
    /\ ~interrupted
    /\ raised = NoExc

\* C28 as stated: the idle count and the down count of a node collection never
\* add up to more than the number of its nodes
C28_IdleAndDownDisjoint ==
    "summary" \in done => summary.idle + summary.down <= summary.total

\* the nodes carrying both the IDLE and the DOWN tag
IdleAndDownTagged(ns) ==
    {i \in 1..Len(ns) : InList("IDLE", ns[i].state) /\ InList("DOWN", ns[i].state)}

\* C28: the nodes counted both as idle and as down are exactly those carrying
\* both IDLE and DOWN (an idle draining node is not among them), so
\* idle_nodes + down_nodes <= total_nodes + the number of such nodes
C28_IdleAndDownOverlapOnlyWithDownTag ==
    "summary" \in done
    => /\ summary.idle + summary.down
             <= summary.total + Cardinality(IdleAndDownTagged(nodes))
       /\ IdleAndDownTagged(nodes) = {} => summary.idle + summary.down <= summary.total

\* a node tagged IDLE and DOWN was counted as idle and as down
C28_Witness ==
    /\ "summary" \in done
    /\ Len(nodes) = 1
    /\ IdleAndDownTagged(nodes) = {1}
    /\ summary.idle = 1
    /\ summary.down = 1
    /\ summary.total = 1

\* C29: building the node table again from the same ClusterStatus gives the
\* same entries, with the same partition_name values, as the time before
C29_DedupIdempotent ==
    [][(rendered >= 1 /\ rendered' = rendered + 1) => table'.entries = table.entries]_vars

\* the table was built twice from records of one name in two partitions
C29_Witness ==
    /\ rendered = 2
    /\ Len(fetched) >= 2
    /\ \E k \in 1..Len(table.entries) :
          table.entries[k].partition_name = PartA \o <<"+">> \o PartB

\* C30: building the node table leaves the number of records, the jobs and
\* every field of every node as they were, except the partition_name of the
\* first record of a name that occurs again later; total_nodes, total_cpus,
\* allocated_cpus and partition_stats are the same before and after
C30_DedupFrame ==
    [][rendered' = rendered + 1
       => /\ Len(nodes') = Len(nodes)
          /\ jobs' = jobs
          /\ \A i \in 1..Len(nodes) :
                /\ nodes'[i] = [nodes[i] EXCEPT !.partition_name = nodes'[i].partition_name]
                /\ nodes'[i].partition_name # nodes[i].partition_name
                      => /\ \A j \in 1..(i - 1) : nodes[j].name # nodes[i].name
                         /\ \E j \in (i + 1)..Len(nodes) : nodes[j].name = nodes[i].name
          /\ total_nodes(nodes') = total_nodes(nodes)
          /\ total_cpus(nodes') = total_cpus(nodes)
          /\ allocated_cpus(nodes') = allocated_cpus(nodes)
          /\ partition_stats(nodes') = partition_stats(nodes)]_vars

\* the table was built from a collection with a repeated name, and the first
\* record of that name, alone, has a merged partition_name
C30_Witness ==
    /\ rendered = 1
    /\ Len(nodes) = 3
    /\ Len(fetched) = 3
    /\ fetched[1].partition_name = PartA
    /\ nodes[1].partition_name = PartA \o <<"+">> \o PartB
    /\ nodes[2] = fetched[2]
    /\ nodes[3] = fetched[3]
    /\ fetched[3].name = fetched[1].name
    /\ fetched[2].name # fetched[1].name

====
